---- MODULE Spec2Model ----
\* Verification model of the chat agent's data pipeline (backend/Agent01/functions.py):
\* column coercion, the seeded sampler, the chart data cleaner and the chart renderer.
EXTENDS Integers, Sequences, FiniteSets, TLC

VARIABLES
    df,         \* the session's table (session["df"]), owned by the caller
    settings,   \* config.settings: SAMPLE_MIN_ROWS / SAMPLE_MAX_ROWS (read from the environment)
    rng,        \* state of the process-wide generator of module random
    openFigs,   \* number of matplotlib figures opened and not yet closed
    result,     \* the last call: its arguments and its outcome
    drawn,      \* history: for each row count, the first selection sample_df made
    otherDraws, \* history: how many draws other code made from the generator
    tpc,        \* per thread: position inside sample_df
    tlen,       \* per thread: row count of the thread's own table
    tsel,       \* per thread: the selection its sample_df call returned
    attached,   \* whether the session holds a table (session["df"] is not None)
    chat,       \* the session's history (session["chat"]), oldest message first
    call,       \* the frame of call_openai: position, attempt, create calls made, sleeps
    files,      \* Agent02/output: the text of Analysis.md and of Recommendation.md
    requests    \* per stock-analysis request: its symbol, position and response

vars == <<df, settings, rng, openFigs, result, drawn, otherDraws, tpc, tlen, tsel, attached,
         chat, call, files, requests>>

\* ---------------------------------------------------------------- bounds
MaxRows == 3
MaxSampleRows == 5
MaxFigs == 1
WideRows == 25
ExampleSmallRows == 100
ExampleLargeRows == 1000
MaxBound == 3
MaxOtherSeed == 2
MaxOtherDraws == 2
RngBits == 16
MaxEntries == 11
MaxSheetRows == 2
MaxChatLen == 3
MaxRequest == 4
MaxBestColumns == 3
SampleRun == 20

\* ---------------------------------------------------------------- program constants
SAMPLE_MIN_ROWS == 200
SAMPLE_MAX_ROWS == 400
SAMPLE_SEED == 42

\* ---------------------------------------------------------------- cells and tables
\* A cell is a number (in hundredths), a text, or null (NaN / None). A number with
\* more than two decimals is kept in ten-thousandths and marked as such.
Num(x) == [t |-> "num", n |-> x, s |-> ""]
Str(x) == [t |-> "str", n |-> 0, s |-> x]
NaN == [t |-> "null", n |-> 0, s |-> ""]
Fine(x) == [t |-> "num", n |-> x, s |-> "e-4"]

\* The value of a numeric cell in ten-thousandths.
Exact(cell) == IF cell.s = "e-4" THEN cell.n ELSE 100 * cell.n

Ts(d) == [t |-> "ts", n |-> d, s |-> ""]

Table(columns, dtype, rows) == [columns |-> columns, dtype |-> dtype, rows |-> rows]

len(t) == Len(t.rows)

Range(f) == {f[x] : x \in DOMAIN f}

\* A table with the single integer column "id" whose value is the row's position.
IdTable(n) ==
    Table(<<"id">>, [c \in {"id"} |-> "int64"],
          [i \in 1..n |-> [c \in {"id"} |-> Num(100 * (i - 1))]])

Max2(a, b) == IF a >= b THEN a ELSE b
Min2(a, b) == IF a <= b THEN a ELSE b

\* ---------------------------------------------------------------- module random
RECURSIVE Pow(_, _)
Pow(b, e) == IF e = 0 THEN 1 ELSE b * Pow(b, e - 1)

RngModulus == Pow(2, RngBits)

\* random.seed(a): the generator state is a function of the seed alone.
RngSeed(a) == a % RngModulus

\* One step of the generator (a full-period congruential generator stands for the
\* Mersenne Twister: the state after a draw is a function of the state before it).
RngStep(s) == (9301 * s + 49297) % RngModulus

RECURSIVE bit_length(_)
bit_length(n) == IF n = 0 THEN 0 ELSE 1 + bit_length(n \div 2)

\* getrandbits(k): advance the generator, take its k high bits.
getrandbits(s, k) ==
    LET s2 == RngStep(s)
    IN  [r |-> s2 \div Pow(2, RngBits - k), rng |-> s2]

\* Random._randbelow(n): draw bit_length(n) bits until the draw is below n.
RECURSIVE randbelow(_, _)
randbelow(s, n) ==
    LET g == getrandbits(s, bit_length(n))
    IN  IF g.r < n THEN g ELSE randbelow(g.rng, n)

\* random.sample, pool branch: partial shuffle of a copy of the population. The loop
\* state is [s, pool, acc, i]; the loop runs from p.i up to stop.
RECURSIVE SamplePoolRun(_, _, _)
SamplePoolRun(p, n, stop) ==
    IF p.i >= stop THEN p
    ELSE LET g == randbelow(p.s, n - p.i)
         IN  SamplePoolRun([s |-> g.rng,
                            pool |-> [p.pool EXCEPT ![g.r + 1] = p.pool[n - p.i]],
                            acc |-> Append(p.acc, p.pool[g.r + 1]),
                            i |-> p.i + 1], n, stop)

\* The whole loop, evaluated in runs of SampleRun iterations.
RECURSIVE SamplePool(_, _, _)
SamplePool(p, n, k) ==
    IF p.i = k THEN [sel |-> p.acc, rng |-> p.s]
    ELSE SamplePool(SamplePoolRun(p, n, Min2(k, p.i + SampleRun)), n, k)

\* random.sample, set branch: redraw until the index is new.
RECURSIVE DrawNew(_, _, _)
DrawNew(s, n, selected) ==
    LET g == randbelow(s, n)
    IN  IF g.r \in selected THEN DrawNew(g.rng, n, selected) ELSE g

RECURSIVE SampleSet(_, _, _, _, _, _)
SampleSet(s, n, k, i, selected, acc) ==
    IF i = k THEN [sel |-> acc, rng |-> s]
    ELSE LET g == DrawNew(s, n, selected)
         IN  SampleSet(g.rng, n, k, i + 1, selected \cup {g.r}, Append(acc, g.r))

RECURSIVE CeilLog4(_)
CeilLog4(x) == IF x <= 1 THEN 0 ELSE 1 + CeilLog4((x + 3) \div 4)

SampleSetSize(k) == IF k > 5 THEN 21 + Pow(4, CeilLog4(3 * k)) ELSE 21

\* random.sample(range(n), k): k indices of 0..n-1 and the generator state afterwards.
random_sample(s, n, k) ==
    IF n <= SampleSetSize(k)
    THEN SamplePool([s |-> s, pool |-> [j \in 1..n |-> j - 1], acc |-> <<>>, i |-> 0], n, k)
    ELSE SampleSet(s, n, k, 0, {}, <<>>)

\* ---------------------------------------------------------------- sample_df
SampleTarget(st, rows) == Max2(st.min, Min2(st.max, rows))

\* No reseeding: the generator goes on from where it stands.
SampleSeed_keep(s) == s

\* The seeding step of sample_df.
SampleSeed(s) == RngSeed(SAMPLE_SEED)

\* df.iloc[sel]: a new table made of the rows at the 0-based positions sel.
iloc(t, sel) == Table(t.columns, t.dtype, [i \in 1..Len(sel) |-> t.rows[sel[i] + 1]])

\* sample_df with the early return taken only for strictly fewer rows than the target.
sample_df_strict(s, st, t) ==
    LET n == SampleTarget(st, len(t))
    IN  IF len(t) < n
        THEN [value |-> t, sel |-> [i \in 1..len(t) |-> i - 1], same |-> TRUE, rng |-> s]
        ELSE LET d == random_sample(SampleSeed(s), len(t), n)
             IN  [value |-> iloc(t, d.sel), sel |-> d.sel, same |-> FALSE, rng |-> d.rng]

\* sample_df(df): the returned table, the positions it holds, whether it is the
\* caller's own object, and the generator state afterwards.
sample_df(s, st, t) ==
    LET n == SampleTarget(st, len(t))
    IN  IF len(t) <= n
        THEN [value |-> t, sel |-> [i \in 1..len(t) |-> i - 1], same |-> TRUE, rng |-> s]
        ELSE LET d == random_sample(SampleSeed(s), len(t), n)
             IN  [value |-> iloc(t, d.sel), sel |-> d.sel, same |-> FALSE, rng |-> d.rng]

\* ---------------------------------------------------------------- text
\* The characters of the texts the model uses (TLC strings are atomic).
Chars(s) ==
    CASE s = "" -> <<>>
      [] s = "Date" -> <<"D", "a", "t", "e">>
      [] s = "Category" -> <<"C", "a", "t", "e", "g", "o", "r", "y">>
      [] s = "Amount" -> <<"A", "m", "o", "u", "n", "t">>
      [] s = "Qty" -> <<"Q", "t", "y">>
      [] s = "Missing" -> <<"M", "i", "s", "s", "i", "n", "g">>
      [] s = "show my spending" ->
            <<"s", "h", "o", "w", " ", "m", "y", " ", "s", "p", "e", "n", "d", "i", "n", "g">>
      [] s = "Expenses by type" ->
            <<"E", "x", "p", "e", "n", "s", "e", "s", " ", "b", "y", " ", "t", "y", "p", "e">>
      [] s = "income" -> <<"i", "n", "c", "o", "m", "e">>
      [] s = "amount" -> <<"a", "m", "o", "u", "n", "t">>
      [] s = "cost" -> <<"c", "o", "s", "t">>
      [] s = "price" -> <<"p", "r", "i", "c", "e">>
      [] s = "total" -> <<"t", "o", "t", "a", "l">>
      [] s = "value" -> <<"v", "a", "l", "u", "e">>
      [] s = "balance" -> <<"b", "a", "l", "a", "n", "c", "e">>
      [] s = "paid" -> <<"p", "a", "i", "d">>
      [] s = "spend" -> <<"s", "p", "e", "n", "d">>
      [] s = "debit" -> <<"d", "e", "b", "i", "t">>
      [] s = "credit" -> <<"c", "r", "e", "d", "i", "t">>
      [] s = "expense" -> <<"e", "x", "p", "e", "n", "s", "e">>
      [] s = "outflow" -> <<"o", "u", "t", "f", "l", "o", "w">>
      [] s = "nan" -> <<"n", "a", "n">>
      [] s = "Food" -> <<"F", "o", "o", "d">>
      [] s = "Rent" -> <<"R", "e", "n", "t">>
      [] s = "Fun" -> <<"F", "u", "n">>
      [] s = "Paid" -> <<"P", "a", "i", "d">>
      [] s = "Fee" -> <<"F", "e", "e">>
      [] s = "AMOUNT" -> <<"A", "M", "O", "U", "N", "T">>
      [] s = "A" -> <<"A">>
      [] s = "B" -> <<"B">>
      [] s = "Z" -> <<"Z">>
      [] s = "bar" -> <<"b", "a", "r">>
      [] s = "line" -> <<"l", "i", "n", "e">>
      [] s = "pie" -> <<"p", "i", "e">>
      [] s = "scatter" -> <<"s", "c", "a", "t", "t", "e", "r">>
      [] s = "plot" -> <<"p", "l", "o", "t">>
      [] s = "error" -> <<"e", "r", "r", "o", "r">>
      [] s = "action" -> <<"a", "c", "t", "i", "o", "n">>
      [] s = "kind" -> <<"k", "i", "n", "d">>
      [] s = "columns" -> <<"c", "o", "l", "u", "m", "n", "s">>
      [] s = "title" -> <<"t", "i", "t", "l", "e">>
      [] s = "json" -> <<"j", "s", "o", "n">>
      [] s = "Here's the chart you requested:" ->
            <<"H", "e", "r", "e", "'", "s", " ", "t", "h", "e", " ", "c", "h", "a", "r", "t",
              " ", "y", "o", "u", " ", "r", "e", "q", "u", "e", "s", "t", "e", "d", ":">>
      [] s = "Spending by category" ->
            <<"S", "p", "e", "n", "d", "i", "n", "g", " ", "b", "y", " ", "c", "a", "t", "e",
              "g", "o", "r", "y">>
      [] s = "Hello, how can I help?" ->
            <<"H", "e", "l", "l", "o", ",", " ", "h", "o", "w", " ", "c", "a", "n", " ", "I",
              " ", "h", "e", "l", "p", "?">>
      [] s = "You are FinBot, an AI financial advisor." ->
            <<"Y", "o", "u", " ", "a", "r", "e", " ", "F", "i", "n", "B", "o", "t", ",", " ",
              "a", "n", " ", "A", "I", " ", "f", "i", "n", "a", "n", "c", "i", "a", "l", " ",
              "a", "d", "v", "i", "s", "o", "r", ".">>
      [] s = "You are Abacus, an AI financial advisor." ->
            <<"Y", "o", "u", " ", "a", "r", "e", " ", "A", "b", "a", "c", "u", "s", ",", " ",
              "a", "n", " ", "A", "I", " ", "f", "i", "n", "a", "n", "c", "i", "a", "l", " ",
              "a", "d", "v", "i", "s", "o", "r", ".">>
      [] s = "12" -> <<"1", "2">>
      [] s = "$1,234.50" -> <<"$", "1", ",", "2", "3", "4", ".", "5", "0">>
      [] s = "-7.5" -> <<"-", "7", ".", "5">>
      [] s = "3 kg" -> <<"3", " ", "k", "g">>
      [] s = ".25" -> <<".", "2", "5">>
      [] s = "abc" -> <<"a", "b", "c">>
      [] s = "N/A" -> <<"N", "/", "A">>
      [] s = "1.2.3" -> <<"1", ".", "2", ".", "3">>
      [] s = "-" -> <<"-">>
      [] s = "1-2" -> <<"1", "-", "2">>

\* str.lower() on one character.
LowerChar(c) ==
    CASE c = "A" -> "a" [] c = "B" -> "b" [] c = "C" -> "c" [] c = "D" -> "d"
      [] c = "E" -> "e" [] c = "F" -> "f" [] c = "M" -> "m" [] c = "N" -> "n"
      [] c = "O" -> "o" [] c = "P" -> "p" [] c = "Q" -> "q" [] c = "R" -> "r"
      [] c = "T" -> "t" [] c = "U" -> "u" [] c = "Z" -> "z" [] OTHER -> c

Lower(cs) == [i \in 1..Len(cs) |-> LowerChar(cs[i])]

\* w in s, on character sequences.
Contains(cs, w) ==
    \E i \in 1..(Len(cs) - Len(w) + 1) : SubSeq(cs, i, i + Len(w) - 1) = w

\* The pattern without its last four words.
MoneyWords_six == {"amount", "cost", "price", "total", "value", "balance"}

\* _MONEY_RE.search(name): the pattern is compiled with re.I.
MoneyWords ==
    {"amount", "cost", "price", "total", "value", "balance", "paid", "spend", "debit",
     "credit"}

_MONEY_RE(name) == \E w \in MoneyWords : Contains(Lower(Chars(name)), Chars(w))

\* ---------------------------------------------------------------- column utilities
is_numeric_dtype(d) == d \in {"int64", "float64", "bool"}
is_datetime64_any_dtype(d) == d = "datetime64"

HasColumn(t, c) == \E i \in 1..Len(t.columns) : t.columns[i] = c

\* [c for c in cols if pred(c)], order kept.
RECURSIVE FilterSeq(_, _)
FilterSeq(cols, keep) ==
    IF cols = <<>> THEN <<>>
    ELSE IF Head(cols) \in keep THEN <<Head(cols)>> \o FilterSeq(Tail(cols), keep)
         ELSE FilterSeq(Tail(cols), keep)

ColumnSet(t) == Range(t.columns)
NumericSet(t) == {c \in ColumnSet(t) : is_numeric_dtype(t.dtype[c])}

\* _split_cols without the test for absent names: they land among the categoricals.
_split_cols_keep_absent(t, cols) ==
    [cats |-> FilterSeq(cols, Range(cols) \ NumericSet(t)),
     nums |-> FilterSeq(cols, NumericSet(t))]

_split_cols(t, cols) ==
    [cats |-> FilterSeq(cols, ColumnSet(t) \ NumericSet(t)),
     nums |-> FilterSeq(cols, NumericSet(t))]

_all_numeric(t) == FilterSeq(t.columns, NumericSet(t))

Abs(x) == IF x < 0 THEN -x ELSE x

RECURSIVE SumSeq(_)
SumSeq(xs) == IF xs = <<>> THEN 0 ELSE Head(xs) + SumSeq(Tail(xs))

\* The non-null numbers of column c, in row order.
ColumnValues(t, c) ==
    LET idx == FilterSeq([i \in 1..len(t) |-> i], {i \in 1..len(t) : t.rows[i][c].t = "num"})
    IN  [k \in 1..Len(idx) |-> t.rows[idx[k]][c].n]

\* df[c].abs().sum(): nulls are skipped.
AbsSum(t, c) == LET v == ColumnValues(t, c) IN SumSeq([k \in 1..Len(v) |-> Abs(v[k])])

\* max(nums, key=...): the first of the largest.
RECURSIVE FirstMax(_, _, _)
FirstMax(t, nums, best) ==
    IF nums = <<>> THEN best
    ELSE FirstMax(t, Tail(nums),
                  IF AbsSum(t, Head(nums)) > AbsSum(t, best) THEN Head(nums) ELSE best)

NoColumn == ""

\* _best_numeric(df); NoColumn stands for None.
_best_numeric(t) ==
    LET nums == _all_numeric(t)
        money == FilterSeq(nums, {c \in NumericSet(t) : _MONEY_RE(c)})
    IN  IF nums = <<>> THEN NoColumn
        ELSE IF money # <<>> THEN Head(money)
        ELSE FirstMax(t, Tail(nums), Head(nums))


\* ---------------------------------------------------------------- tables as objects
\* A call works on a local name df that is bound either to the caller's own table
\* object (alias) or to a new object; a write through an aliased name changes the
\* caller's table.
Frame(t) == [caller |-> t, work |-> t, alias |-> TRUE]

\* Binding df to a new object.
Rebind(f, t) == [caller |-> f.caller, work |-> t, alias |-> FALSE]

\* A write into the object df is bound to.
WriteThrough(f, t) == [caller |-> IF f.alias THEN t ELSE f.caller, work |-> t, alias |-> f.alias]

Indices(t) == [i \in 1..len(t) |-> i]

\* The rows of t at the kept positions, order kept.
KeepRows(t, keep) ==
    LET idx == FilterSeq(Indices(t), keep)
    IN  Table(t.columns, t.dtype, [k \in 1..Len(idx) |-> t.rows[idx[k]]])

IsNull(cell) == cell.t = "null"

\* ---------------------------------------------------------------- _clean_chart_data
\* df.dropna(subset=cols) with inplace=True: the object itself loses the rows.
dropna_inplace(f, cols) ==
    WriteThrough(f, KeepRows(f.work,
        {i \in 1..len(f.work) : \A k \in 1..Len(cols) : ~IsNull(f.work.rows[i][cols[k]])}))

\* dropna with how="all": only the rows null in every target column are dropped.
dropna_all(f, cols) ==
    Rebind(f, KeepRows(f.work,
        {i \in 1..len(f.work) : cols = <<>> \/ \E k \in 1..Len(cols) : ~IsNull(f.work.rows[i][cols[k]])}))

\* df = df.dropna(subset=cols): a new table without the rows that hold a null in a
\* target column.
dropna(f, cols) ==
    Rebind(f, KeepRows(f.work,
        {i \in 1..len(f.work) : \A k \in 1..Len(cols) : ~IsNull(f.work.rows[i][cols[k]])}))

RECURSIVE Insert(_, _)
Insert(x, xs) ==
    IF xs = <<>> THEN <<x>>
    ELSE IF x <= Head(xs) THEN <<x>> \o xs ELSE <<Head(xs)>> \o Insert(x, Tail(xs))

RECURSIVE Sort(_)
Sort(xs) == IF xs = <<>> THEN <<>> ELSE Insert(Head(xs), Sort(Tail(xs)))

\* Series.quantile(pct / 100) with linear interpolation, of n >= 1 numbers given in
\* ten-thousandths; the result is in millionths.
quantile(xs, pct) ==
    LET sorted == Sort(xs)
        pos == (Len(xs) - 1) * pct
        i == pos \div 100
        frac == pos % 100
    IN  IF frac = 0 THEN 100 * sorted[i + 1]
        ELSE 100 * sorted[i + 1] + frac * (sorted[i + 2] - sorted[i + 1])

\* Series.clip(lower, upper) of one number in ten-thousandths, bounds and result in
\* millionths.
clip(x, lower, upper) ==
    IF 100 * x < lower THEN lower ELSE IF 100 * x > upper THEN upper ELSE 100 * x

\* Series.round(2) of a number in millionths, to hundredths (halves to even).
round2(v) ==
    LET q == v \div 10000
        r == v % 10000
    IN  IF r < 5000 THEN q
        ELSE IF r > 5000 THEN q + 1
        ELSE IF q % 2 = 0 THEN q ELSE q + 1

\* df[c] = df[c].clip(lower, upper).round(2)
ClampColumn(t, c) ==
    IF len(t) = 0 THEN t
    ELSE LET xs == [i \in 1..len(t) |-> Exact(t.rows[i][c])]
             lower == quantile(xs, 1)
             upper == quantile(xs, 99)
         IN  Table(t.columns, t.dtype,
                   [i \in 1..len(t) |->
                       [t.rows[i] EXCEPT ![c] = Num(round2(clip(xs[i], lower, upper)))]])

\* The loop body with the negative rows removed before the clamping.
CleanColumn_filter_first(f, c) ==
    LET g == Rebind(f, KeepRows(f.work, {i \in 1..len(f.work) : f.work.rows[i][c].n >= 0}))
    IN  WriteThrough(g, ClampColumn(g.work, c))

\* The loop body without the removal of the negative values.
CleanColumn_unfiltered(f, c) == WriteThrough(f, ClampColumn(f.work, c))

\* One pass of the loop body for a numeric target column c.
CleanColumn(f, c) ==
    LET g == WriteThrough(f, ClampColumn(f.work, c))
    IN  Rebind(g, KeepRows(g.work, {i \in 1..len(g.work) : g.work.rows[i][c].n >= 0}))

RECURSIVE CleanLoop(_, _)
CleanLoop(f, cols) ==
    IF cols = <<>> THEN f
    ELSE IF ~HasColumn(f.work, Head(cols)) \/ ~is_numeric_dtype(f.work.dtype[Head(cols)])
         THEN CleanLoop(f, Tail(cols))
         ELSE CleanLoop(CleanColumn(f, Head(cols)), Tail(cols))

\* _clean_chart_data(df, cols): dropna raises KeyError for a name the table lacks.
_clean_chart_data(f, cols) ==
    IF \E k \in 1..Len(cols) : ~HasColumn(f.work, cols[k])
    THEN [raised |-> "KeyError", frame |-> f]
    ELSE [raised |-> "", frame |-> CleanLoop(dropna(f, cols), cols)]


\* ---------------------------------------------------------------- make_chart
\* A series is a set of entries [k |-> label, v |-> number in hundredths, row |-> 0];
\* the entries of columns plotted row by row carry the row's position.
Keys(t, c) == {t.rows[i][c] : i \in {j \in 1..len(t) : ~IsNull(t.rows[j][c])}}

\* df.groupby(cat)[num].sum(): nulls of num are skipped.
GroupSum(t, cat, num) ==
    {[k |-> key,
      v |-> LET idx == FilterSeq(Indices(t),
                           {i \in 1..len(t) : t.rows[i][cat] = key /\ t.rows[i][num].t = "num"})
            IN  SumSeq([j \in 1..Len(idx) |-> t.rows[idx[j]][num].n]),
      row |-> 0] : key \in Keys(t, cat)}

\* df[c].value_counts()
value_counts(t, c) ==
    {[k |-> key, v |-> 100 * Cardinality({i \in 1..len(t) : t.rows[i][c] = key}), row |-> 0] :
        key \in Keys(t, c)}

\* The points of column c plotted against the index column (NoColumn: the row labels).
Points(t, index, c) ==
    {[k |-> IF index = "" THEN Num(i) ELSE t.rows[i][index], v |-> t.rows[i][c].n, row |-> i] :
        i \in {j \in 1..len(t) : t.rows[j][c].t = "num"}}

SpendWords == {"spend", "expense", "outflow"}

\* any(w in prompt.lower() for w in ("spend", "expense", "outflow"))
SpendHint(prompt) == \E w \in SpendWords : Contains(Lower(Chars(prompt)), Chars(w))

\* The sign handling that negates an all-negative series and leaves a mixed one as
\* it is.
PieSlices_mixed_kept(series, prompt) ==
    LET s1 == IF SpendHint(prompt) THEN {e \in series : e.v < 0} ELSE series
        s2 == IF \A e \in s1 : e.v < 0 THEN {[e EXCEPT !.v = -e.v] : e \in s1} ELSE s1
    IN  {e \in s2 : e.v # 0}

\* The sign handling of the pie branch, up to the removal of the zero slices.
PieSlices(series, prompt) ==
    LET s1 == IF SpendHint(prompt) THEN {e \in series : e.v < 0} ELSE series
        s2 == IF \A e \in s1 : e.v < 0 THEN {[e EXCEPT !.v = -e.v] : e \in s1}
              ELSE IF \E e \in s1 : e.v < 0 THEN {[e EXCEPT !.v = Abs(e.v)] : e \in s1}
              ELSE s1
    IN  {e \in s2 : e.v # 0}

MIN_POINTS == 3

\* What a call hands to its caller: an encoded image (described by what plot() was
\* given and with which kind), the error JSON, or an exception.
NoPlot == [drawn |-> "", by |-> "", measures |-> <<>>, data |-> <<>>]
Plot(kind, by, measures, data) ==
    [is |-> "image", action |-> "", message |-> "", exception |-> "",
     plot |-> [drawn |-> kind, by |-> by, measures |-> measures, data |-> data]]
ErrorJson(message) ==
    [is |-> "json", action |-> "error", message |-> message, exception |-> "", plot |-> NoPlot]
Exception(name) ==
    [is |-> "exception", action |-> "", message |-> "", exception |-> name, plot |-> NoPlot]

NOT_ENOUGH == ErrorJson("Not enough valid data to plot.")

Returned(value, figs, caller) ==
    [outcome |-> "return", value |-> value, figs |-> figs, caller |-> caller]
Raised(exc, figs, caller) ==
    [outcome |-> "raise", value |-> Exception(exc), figs |-> figs, caller |-> caller]

\* The branch for kind bar or line with the frequency count drawn with the requested
\* kind.
BarLine_counts_as_requested(t, kind, cats, nums, figs, caller) ==
    IF cats # <<>> /\ nums = <<>> /\ ~is_datetime64_any_dtype(t.dtype[cats[1]])
    THEN LET maybe == _best_numeric(t)
         IN  IF maybe # NoColumn
             THEN Returned(Plot(kind, cats[1], <<maybe>>, <<GroupSum(t, cats[1], maybe)>>),
                           figs - 1, caller)
             ELSE Returned(Plot(kind, cats[1], <<>>, <<value_counts(t, cats[1])>>),
                           figs - 1, caller)
    ELSE Returned(Plot(kind, NoColumn, <<>>, <<>>), figs - 1, caller)

\* The branch for kind bar or line, after plt.subplots(); figs counts the open figure.
BarLine(t, kind, cats, nums, figs, caller) ==
    IF cats # <<>> /\ is_datetime64_any_dtype(t.dtype[cats[1]])
    THEN LET ms == IF nums # <<>> THEN nums ELSE _all_numeric(t)
         IN  IF ms = <<>> THEN Raised("TypeError", figs, caller)
             ELSE Returned(Plot(kind, cats[1], ms,
                               [j \in 1..Len(ms) |-> Points(t, cats[1], ms[j])]),
                           figs - 1, caller)
    ELSE IF cats # <<>> /\ nums # <<>>
    THEN Returned(Plot(kind, cats[1], nums,
                       [j \in 1..Len(nums) |-> GroupSum(t, cats[1], nums[j])]),
                  figs - 1, caller)
    ELSE IF nums = <<>> /\ cats # <<>>
    THEN LET maybe == _best_numeric(t)
         IN  IF maybe # NoColumn
             THEN Returned(Plot(kind, cats[1], <<maybe>>, <<GroupSum(t, cats[1], maybe)>>),
                           figs - 1, caller)
             ELSE Returned(Plot("bar", cats[1], <<>>, <<value_counts(t, cats[1])>>),
                           figs - 1, caller)
    ELSE IF nums # <<>>
    THEN Returned(Plot(kind, NoColumn, nums,
                       [j \in 1..Len(nums) |-> Points(t, NoColumn, nums[j])]),
                  figs - 1, caller)
    ELSE Returned(Plot(kind, NoColumn, <<>>, <<>>), figs - 1, caller)

\* The branch for kind pie, after plt.subplots().
Pie(t, cats, nums0, prompt, figs, caller) ==
    LET best == _best_numeric(t)
        nums == IF cats # <<>> /\ nums0 = <<>>
                THEN (IF best # NoColumn THEN <<best>> ELSE <<>>)
                ELSE nums0
    IN  IF cats = <<>> /\ nums = <<>> THEN Returned(NOT_ENOUGH, figs, caller)
        ELSE LET series == IF cats # <<>> /\ nums # <<>> THEN GroupSum(t, cats[1], nums[1])
                           ELSE IF cats # <<>> THEN value_counts(t, cats[1])
                           ELSE value_counts(t, nums[1])
                 slices == PieSlices(series, prompt)
             IN  IF Cardinality(slices) < MIN_POINTS THEN Returned(NOT_ENOUGH, figs, caller)
                 ELSE Returned(Plot("pie", IF cats # <<>> THEN cats[1] ELSE nums[1],
                                    nums, <<slices>>),
                               figs - 1, caller)

\* Dispatch without the final else branch: an unknown kind draws nothing and the
\* empty figure is saved.
Dispatch_silent(t, kind, cols, prompt, figs, caller) ==
    LET sp == _split_cols(t, cols)
    IN  IF kind \in {"bar", "line"} THEN BarLine(t, kind, sp.cats, sp.nums, figs, caller)
        ELSE IF kind = "pie" THEN Pie(t, sp.cats, sp.nums, prompt, figs, caller)
        ELSE Returned(Plot(kind, NoColumn, <<>>, <<>>), figs - 1, caller)

\* The dispatch on kind, entered with the figure open.
Dispatch(t, kind, cols, prompt, figs, caller) ==
    LET sp == _split_cols(t, cols)
    IN  IF kind \in {"bar", "line"} THEN BarLine(t, kind, sp.cats, sp.nums, figs, caller)
        ELSE IF kind = "pie" THEN Pie(t, sp.cats, sp.nums, prompt, figs, caller)
        ELSE Raised("ValueError", figs, caller)

\* The test with the threshold off by one.
EnoughRows_two(t) == len(t) >= MIN_POINTS - 1

\* The test on the cleaned table that precedes plt.subplots().
EnoughRows(t) == len(t) >= MIN_POINTS

\* make_chart with the column test moved after the cleaning and the row test.
make_chart_clean_first(t, kind, columns, prompt, figs) ==
    LET cols == FilterSeq(columns, ColumnSet(t))
        c == _clean_chart_data(Frame(t), cols)
    IN  [call |-> IF ~EnoughRows(c.frame.work)
                  THEN Returned(NOT_ENOUGH, figs, c.frame.caller)
                  ELSE IF cols = <<>> THEN Raised("ValueError", figs, c.frame.caller)
                  ELSE Dispatch(c.frame.work, kind, cols, prompt, figs + 1, c.frame.caller),
         cleaned |-> TRUE]

\* make_chart(df, kind, columns, prompt) called with figs figures open: how the call
\* ends, with which value, how many figures are open afterwards, and the caller's
\* table afterwards. cleaned tells whether _clean_chart_data ran.
make_chart(t, kind, columns, prompt, figs) ==
    LET cols == FilterSeq(columns, ColumnSet(t))
    IN  IF cols = <<>>
        THEN [call |-> Raised("ValueError", figs, t), cleaned |-> FALSE]
        ELSE LET c == _clean_chart_data(Frame(t), cols)
             IN  [call |-> IF ~EnoughRows(c.frame.work)
                           THEN Returned(NOT_ENOUGH, figs, c.frame.caller)
                           ELSE Dispatch(c.frame.work, kind, cols, prompt, figs + 1,
                                         c.frame.caller),
                  cleaned |-> TRUE]


\* ---------------------------------------------------------------- inputs of the chart pipeline
\* The rows the tables are made of: (Date, Category, Amount in hundredths).
RowPool ==
    << [Date |-> Ts(1), Category |-> Str("Food"), Amount |-> Num(-5000)],
       [Date |-> Ts(2), Category |-> Str("Rent"), Amount |-> Num(-3000)],
       [Date |-> Ts(3), Category |-> Str("Fun"), Amount |-> Num(-2000)],
       [Date |-> Ts(1), Category |-> Str("Food"), Amount |-> Num(1000)],
       [Date |-> Ts(2), Category |-> Str("Rent"), Amount |-> Num(3000)],
       [Date |-> Ts(3), Category |-> NaN, Amount |-> NaN] >>

Schemas ==
    { <<"Date", "Category", "Amount">>, <<"Date", "Category">> }

DtypeOf(c) ==
    CASE c = "Date" -> "datetime64" [] c = "Amount" -> "float64" [] OTHER -> "object"

\* Non-decreasing sequences of n pool positions (row order does not matter to charts).
RECURSIVE Picks(_, _)
Picks(n, from) ==
    IF n = 0 THEN {<<>>}
    ELSE UNION {{<<p>> \o rest : rest \in Picks(n - 1, p)} : p \in from..Len(RowPool)}

MakeTable(schema, picks) ==
    Table(schema, [c \in Range(schema) |-> DtypeOf(c)],
          [i \in 1..Len(picks) |-> [c \in Range(schema) |-> RowPool[picks[i]][c]]])

ChartTables ==
    {MakeTable(schema, picks) : schema \in Schemas, picks \in UNION {Picks(n, 1) : n \in 0..MaxRows}}

Kinds == {"bar", "line", "pie", "scatter"}
SupportedKinds == {"bar", "line", "pie"}

ColumnLists ==
    { <<>>, <<"Missing">>, <<"Category">>, <<"Amount">>, <<"Date">>,
      <<"Category", "Amount">>, <<"Missing", "Amount", "Category">>, <<"Date", "Amount">> }

Prompts == {"", "show my spending", "Expenses by type"}

\* The bounds of the chart pipeline's runs: small enough for a 3-row table to be sampled.
ChartSettings == [min |-> 1, max |-> 2]

NoResult == [op |-> "none"]
NoDraw == [count |-> 0, sel |-> <<>>, at |-> 0]

Threads == {1, 2}

\* A session with a table attached and only the system message in its history.
Message(role, content) == [role |-> role, content |-> content]
NewChat == <<Message("system", Chars("You are FinBot, an AI financial advisor."))>>
SessionWithTable == attached = TRUE /\ chat = NewChat

\* call_openai is not running.
NoCall == [pc |-> "idle", attempt |-> 0, messages |-> <<>>, tries |-> <<>>, slept |-> <<>>]

\* A file that does not exist, and a stock-analysis request not yet received.
NoFile == [exists |-> FALSE, symbol |-> <<>>]
NoRequest == [pc |-> "idle", symbol |-> <<>>, status |-> 0, analysis |-> <<>>,
              recommendation |-> <<>>]
StockRequests == {1, 2}

ServicesIdle ==
    /\ call = NoCall
    /\ files = [analysis |-> NoFile, recommendation |-> NoFile]
    /\ requests = [r \in StockRequests |-> NoRequest]

ThreadsIdle ==
    /\ tpc = [t \in Threads |-> "idle"]
    /\ tlen = [t \in Threads |-> 0]
    /\ tsel = [t \in Threads |-> <<>>]

Init ==
    /\ df \in ChartTables
    /\ settings = ChartSettings
    /\ rng = 0
    /\ openFigs = 0
    /\ result = NoResult
    /\ drawn = NoDraw
    /\ otherDraws = 0
    /\ ThreadsIdle
    /\ ServicesIdle
    /\ SessionWithTable

\* ---------------------------------------------------------------- operations
\* A call of make_chart on the session's table.
MakeChart ==
    \E kind \in Kinds, columns \in ColumnLists, prompt \in Prompts :
        /\ result = NoResult
        /\ openFigs < MaxFigs
        /\ kind # "pie" => prompt = ""
        /\ LET r == make_chart(df, kind, columns, prompt, openFigs)
           IN  /\ result' = [op |-> "make_chart", kind |-> kind, columns |-> columns,
                             prompt |-> prompt, outcome |-> r.call.outcome,
                             value |-> r.call.value, cleaned |-> r.cleaned]
               /\ openFigs' = r.call.figs
               /\ df' = r.call.caller
        /\ UNCHANGED <<call, files, requests, settings, rng, drawn, otherDraws, tpc, tlen, tsel, attached, chat>>

\* A call of _clean_chart_data on the session's table.
CleanChartData ==
    \E cols \in ColumnLists :
        /\ result = NoResult
        /\ LET c == _clean_chart_data(Frame(df), cols)
           IN  /\ result' = [op |-> "_clean_chart_data", columns |-> cols,
                             outcome |-> IF c.raised = "" THEN "return" ELSE "raise",
                             table |-> c.frame.work]
               /\ df' = c.frame.caller
        /\ UNCHANGED <<call, files, requests, settings, rng, openFigs, drawn, otherDraws, tpc, tlen, tsel, attached, chat>>

\* A call of sample_df on the session's table.
SampleDf ==
    /\ result = NoResult
    /\ LET r == sample_df(rng, settings, df)
       IN  /\ result' = [op |-> "sample_df", table |-> r.value, sel |-> r.sel, same |-> r.same]
           /\ rng' = r.rng
           /\ drawn' = IF drawn.count = 0 THEN [count |-> 1, sel |-> r.sel, at |-> otherDraws]
                       ELSE [drawn EXCEPT !.count = 2]
    /\ UNCHANGED <<call, files, requests, df, settings, openFigs, otherDraws, tpc, tlen, tsel, attached, chat>>

\* The caller takes the returned value, or catches the exception, and goes on.
Consume ==
    /\ result # NoResult
    /\ result' = NoResult
    /\ UNCHANGED <<call, files, requests, df, settings, rng, openFigs, drawn, otherDraws, tpc, tlen, tsel, attached, chat>>

Next == MakeChart \/ CleanChartData \/ SampleDf \/ Consume

Spec == Init /\ [][Next]_vars


\* ---------------------------------------------------------------- claims on make_chart
IsMakeChart == result.op = "make_chart"

\* The requested columns the session's table has.
ValidColumns == {c \in Range(result.columns) : HasColumn(df, c)}

\* The rows that remain of the session's table after cleaning the valid columns.
RowsAfterCleaning ==
    len(_clean_chart_data(Frame(df), FilterSeq(result.columns, ColumnSet(df))).frame.work)

ReturnedNotEnough ==
    /\ result.outcome = "return"
    /\ result.value.is = "json"
    /\ result.value.action = "error"
    /\ result.value.message = "Not enough valid data to plot."

ReturnedImage == result.outcome = "return" /\ result.value.is = "image"

RaisedValueError ==
    /\ result.outcome = "raise"
    /\ result.value.is = "exception"
    /\ result.value.exception = "ValueError"

\* C1: when at least one requested column exists and fewer than 3 rows remain after
\* cleaning, make_chart with kind bar, line or pie returns the structured error
\* value "Not enough valid data to plot." and does not raise.
C1_InsufficientDataIsReturned ==
    (IsMakeChart /\ ValidColumns # {} /\ result.kind \in SupportedKinds
        /\ RowsAfterCleaning < 3)
    => ReturnedNotEnough

C1_Witness ==
    /\ IsMakeChart /\ result.kind = "bar" /\ result.columns = <<"Category", "Amount">>
    /\ len(df) = 2 /\ RowsAfterCleaning = 2
    /\ ReturnedNotEnough

\* C2 as stated: with a valid column and a kind other than bar, line or pie,
\* make_chart raises the invalid-request error whatever the number of rows left.
C2_UnsupportedKindAlwaysRaises ==
    (IsMakeChart /\ ValidColumns # {} /\ result.kind \notin SupportedKinds)
    => RaisedValueError

\* C2 amended: with a valid column and a kind other than bar, line or pie,
\* make_chart raises the invalid-request error when at least 3 rows remain after
\* cleaning, and returns the insufficient-data error value when fewer remain.
C2_UnsupportedKindRaisesWithEnoughRows ==
    (IsMakeChart /\ ValidColumns # {} /\ result.kind \notin SupportedKinds)
    => IF RowsAfterCleaning >= 3 THEN RaisedValueError ELSE ReturnedNotEnough

C2_Witness ==
    /\ IsMakeChart /\ ValidColumns # {} /\ result.kind = "scatter"
    /\ RowsAfterCleaning >= 3 /\ RaisedValueError

\* C3: when none of the requested columns exists in the table, make_chart raises
\* the invalid-request error for every table and kind, never returns the
\* insufficient-data value, and neither cleans nor opens a figure before raising.
C3_NoValidColumnRaisesFirst ==
    [][(result'.op = "make_chart" /\ result = NoResult
            /\ \A c \in Range(result'.columns) : ~HasColumn(df, c))
        => /\ result'.outcome = "raise" /\ result'.value.exception = "ValueError"
           /\ ~result'.cleaned
           /\ openFigs' = openFigs]_vars

C3_Witness ==
    /\ IsMakeChart /\ ValidColumns = {} /\ result.columns = <<"Missing">>
    /\ len(df) < 3 /\ result.kind = "pie"
    /\ RaisedValueError /\ ~result.cleaned

\* C4: every figure make_chart opens is closed before the call ends (image,
\* insufficient-data value, unsupported kind), so no figure is open after a call.
C4_NoFigureStaysOpen ==
    (IsMakeChart /\ (ReturnedImage \/ ReturnedNotEnough \/ RaisedValueError)) => openFigs = 0

\* C5: no call of sample_df, _clean_chart_data or make_chart changes the caller's
\* table, whether the call returns a chart, returns the error value or raises.
C5_CallerTableUnchanged == [][df' = df]_vars

\* A call that dropped rows and clamped values in its copy.
C5_Witness ==
    /\ result.op = "_clean_chart_data" /\ result.outcome = "return"
    /\ len(df) = 3 /\ len(result.table) = 2
    /\ \E i \in 1..2 : \A j \in 1..3 : result.table.rows[i] # df.rows[j]


\* The categories of t whose Amount sums to a negative value, as positive slices.
NegativeSums(t) ==
    {[e EXCEPT !.v = -e.v] : e \in {g \in GroupSum(t, "Category", "Amount") : g.v < 0}}

\* C18: a pie of a categorical column and a numeric measure, both requested, with a
\* hint containing spend, expense or outflow, shows exactly the categories whose sum
\* in the table is negative, as positive magnitudes (sums -50, -30, -20 give the
\* slices 50, 30, 20).
C18_SpendPieShowsNegativeSums ==
    (/\ IsMakeChart /\ result.kind = "pie" /\ result.columns = <<"Category", "Amount">>
     /\ SpendHint(result.prompt)
     /\ "Amount" \in ColumnSet(df)
     /\ Cardinality(NegativeSums(df)) >= MIN_POINTS)
    => /\ result.outcome = "return"
       /\ result.value.is = "image"
       /\ result.value.plot.data = <<NegativeSums(df)>>


\* The requested columns the table has, in request order, and the table cleaned
\* over them.
PresentColumns == FilterSeq(result.columns, ColumnSet(df))
Cleaned == _clean_chart_data(Frame(df), PresentColumns).frame.work

\* The requested columns the table has are all categorical and the first of them
\* is not a timestamp; enough rows remain.
OnlyCategoricalRequested ==
    /\ IsMakeChart /\ result.kind \in {"bar", "line"}
    /\ PresentColumns # <<>>
    /\ \A c \in Range(PresentColumns) : ~is_numeric_dtype(df.dtype[c])
    /\ ~is_datetime64_any_dtype(df.dtype[PresentColumns[1]])
    /\ len(Cleaned) >= MIN_POINTS

\* C24: for kind bar or line, when the requested columns the table has are all
\* categorical and the first is not a timestamp: with a numeric column in the cleaned
\* table the chart is the per-category sum of the column _best_numeric chooses, drawn
\* with the requested kind; without one it is the frequency count of the first
\* categorical column, drawn as a bar chart also when line was requested.
C24_CategoricalOnlyBarLine ==
    OnlyCategoricalRequested
    => /\ ReturnedImage
       /\ result.value.plot.by = PresentColumns[1]
       /\ IF NumericSet(Cleaned) # {}
          THEN /\ result.value.plot.drawn = result.kind
               /\ result.value.plot.measures = <<_best_numeric(Cleaned)>>
               /\ result.value.plot.data =
                      <<{[k |-> key,
                          v |-> SumSeq(ColumnValues(
                                    KeepRows(Cleaned, {i \in 1..len(Cleaned) :
                                        Cleaned.rows[i][PresentColumns[1]] = key}),
                                    _best_numeric(Cleaned))),
                          row |-> 0] : key \in Keys(Cleaned, PresentColumns[1])}>>
          ELSE /\ result.value.plot.drawn = "bar"
               /\ result.value.plot.measures = <<>>
               /\ result.value.plot.data =
                      <<{[k |-> key,
                          v |-> 100 * Cardinality({i \in 1..len(Cleaned) :
                                    Cleaned.rows[i][PresentColumns[1]] = key}),
                          row |-> 0] : key \in Keys(Cleaned, PresentColumns[1])}>>

\* A line chart of a text column was requested on a table without numbers and a bar
\* chart of the counts was drawn.
C24_Witness ==
    /\ OnlyCategoricalRequested /\ result.kind = "line" /\ NumericSet(df) = {}
    /\ ReturnedImage /\ result.value.plot.drawn = "bar"


\* The series of the pie branch for the cleaned table: the sums of the measure per
\* category, or the counts of the only kind of column there is.
PieSeries ==
    LET sp == _split_cols(Cleaned, PresentColumns)
        best == _best_numeric(Cleaned)
        measure == IF sp.nums # <<>> THEN sp.nums[1] ELSE best
    IN  IF sp.cats # <<>> /\ measure # NoColumn THEN GroupSum(Cleaned, sp.cats[1], measure)
        ELSE IF sp.cats # <<>> THEN value_counts(Cleaned, sp.cats[1])
        ELSE value_counts(Cleaned, sp.nums[1])

\* The magnitudes of the entries the hint leaves, without the zeros.
Magnitudes ==
    {[e EXCEPT !.v = Abs(e.v)] :
        e \in {x \in PieSeries : x.v # 0 /\ (SpendHint(result.prompt) => x.v < 0)}}

\* C25: a pie that make_chart draws has at least 3 slices, all strictly positive:
\* the entries left by the hint filter are shown as magnitudes (an all-negative
\* series negated, a mixed one as absolute values), zeros are removed, and fewer
\* than 3 remaining slices, the empty series included, give the insufficient-data
\* error instead of a chart.
C25_PieSlicesPositive ==
    /\ (IsMakeChart /\ ReturnedImage /\ result.value.plot.drawn = "pie")
       => \A k \in 1..Len(result.value.plot.data) :
              /\ Cardinality(result.value.plot.data[k]) >= MIN_POINTS
              /\ \A e \in result.value.plot.data[k] : e.v > 0
    /\ (IsMakeChart /\ result.kind = "pie" /\ PresentColumns # <<>>
        /\ len(Cleaned) >= MIN_POINTS)
       => IF Cardinality(Magnitudes) < MIN_POINTS THEN ReturnedNotEnough
          ELSE /\ ReturnedImage
               /\ result.value.plot.drawn = "pie"
               /\ result.value.plot.data = <<Magnitudes>>

\* A pie of sums of both signs was drawn.
C25_Witness ==
    /\ IsMakeChart /\ ReturnedImage /\ result.value.plot.drawn = "pie"
    /\ \E e \in PieSeries : e.v < 0
    /\ \E e \in PieSeries : e.v > 0


\* ---------------------------------------------------------------- the cleaner alone
\* Tables with a text column and two numeric columns, nulls and negative values in
\* each of them: every sequence of at most MaxRows of these rows.
CleanerRows ==
    { [Category |-> Str("Food"), Amount |-> Num(-5000), Qty |-> Num(300)],
      [Category |-> Str("Rent"), Amount |-> Num(3000), Qty |-> Num(-2)],
      [Category |-> Str("Fun"), Amount |-> Num(990), Qty |-> Num(100)],
      [Category |-> NaN, Amount |-> Num(2000), Qty |-> NaN],
      [Category |-> Str("Fee"), Amount |-> NaN, Qty |-> Num(400)],
      [Category |-> Str("Paid"), Amount |-> Fine(-40), Qty |-> Num(100)] }

CleanerTables ==
    {Table(<<"Category", "Amount", "Qty">>,
           [Category |-> "object", Amount |-> "float64", Qty |-> "float64"], rows) :
        rows \in UNION {[1..n -> CleanerRows] : n \in 0..MaxRows}}

\* Target lists as make_chart passes them: names of the table, in any order.
TargetLists ==
    { <<"Category">>, <<"Amount">>, <<"Qty">>, <<"Amount", "Qty">>, <<"Qty", "Amount">>,
      <<"Category", "Amount">>, <<"Qty", "Category", "Amount">>, <<"Amount", "Amount">> }

CleanerInit ==
    /\ df \in CleanerTables
    /\ settings = ChartSettings
    /\ rng = 0
    /\ openFigs = 0
    /\ result = NoResult
    /\ drawn = NoDraw
    /\ otherDraws = 0
    /\ ThreadsIdle
    /\ ServicesIdle
    /\ SessionWithTable

\* A call of _clean_chart_data on the table, given is the table as passed.
CleanTargets ==
    \E cols \in TargetLists :
        /\ result = NoResult
        /\ LET c == _clean_chart_data(Frame(df), cols)
           IN  /\ result' = [op |-> "_clean_chart_data", columns |-> cols,
                             outcome |-> IF c.raised = "" THEN "return" ELSE "raise",
                             table |-> c.frame.work, given |-> df]
               /\ df' = c.frame.caller
        /\ UNCHANGED <<call, files, requests, settings, rng, openFigs, drawn, otherDraws, tpc, tlen, tsel, attached, chat>>

CleanerNext == CleanTargets \/ Consume

SpecCleaner == CleanerInit /\ [][CleanerNext]_vars

IsCleaned == result.op = "_clean_chart_data" /\ result.outcome = "return"

NumericTargets == {c \in Range(result.columns) : is_numeric_dtype(result.given.dtype[c])}

\* Output row o derives from input row r: the cells outside the clamped columns are
\* r's, the clamped cells are numbers.
DerivesFrom(o, r) ==
    \A c \in ColumnSet(result.given) :
        IF c \in NumericTargets THEN o[c].t = "num" /\ r[c].t = "num" ELSE o[c] = r[c]

\* C19: every output row of _clean_chart_data derives from a distinct input row, in
\* the same relative order (so the output has at most as many rows as the input),
\* and no output row has a null in a target column.
C19_RowsDeriveInOrderWithoutNulls ==
    IsCleaned
    => /\ len(result.table) <= len(result.given)
       /\ \E from \in [1..len(result.table) -> 1..len(result.given)] :
              /\ \A i, j \in 1..len(result.table) : i < j => from[i] < from[j]
              /\ \A i \in 1..len(result.table) :
                     DerivesFrom(result.table.rows[i], result.given.rows[from[i]])
       /\ \A i \in 1..len(result.table), c \in Range(result.columns) :
              ~IsNull(result.table.rows[i][c])

\* A table with a null in a target column was cleaned and kept two of its rows.
C19_Witness ==
    /\ IsCleaned
    /\ \E i \in 1..len(result.given), c \in Range(result.columns) :
           IsNull(result.given.rows[i][c])
    /\ len(result.table) = 2 /\ len(result.given) = 3

\* C20: in the output of _clean_chart_data every value of every numeric target
\* column is >= 0, also with several numeric targets.
C20_NumericTargetsNonNegative ==
    IsCleaned
    => \A i \in 1..len(result.table), c \in NumericTargets : result.table.rows[i][c].n >= 0

\* Two numeric targets, each with a negative value in the table, and a row left.
C20_Witness ==
    /\ IsCleaned /\ result.columns = <<"Amount", "Qty">>
    /\ \E i \in 1..len(result.given) : result.given.rows[i].Amount.n < 0
    /\ \E i \in 1..len(result.given) : result.given.rows[i].Qty.n < 0
    /\ len(result.table) >= 1


\* The table as it stands when the pass for the k-th target begins.
BeforePass(k) ==
    CleanLoop(dropna(Frame(result.given), result.columns), SubSeq(result.columns, 1, k - 1)).work

\* Column c of t as numbers in ten-thousandths.
Numbers(t, c) == [i \in 1..len(t) |-> Exact(t.rows[i][c])]

\* C21: every value of a numeric target column in the output of _clean_chart_data,
\* as stored after rounding, lies within the 1st and 99th percentile of the column
\* as it stood just before it was clamped.
C21_StoredValuesWithinPercentiles ==
    IsCleaned
    => \A k \in 1..Len(result.columns) :
           LET c == result.columns[k]
               pre == BeforePass(k)
           IN  (c \in NumericTargets /\ len(pre) > 0)
               => \A i \in 1..len(result.table) :
                      /\ quantile(Numbers(pre, c), 1) <= 10000 * result.table.rows[i][c].n
                      /\ 10000 * result.table.rows[i][c].n <= quantile(Numbers(pre, c), 99)


\* The value stored for x when the column holds xs: clamped to the percentiles of xs,
\* then rounded.
Stored(x, xs) == round2(clip(x, quantile(xs, 1), quantile(xs, 99)))

LastTarget == result.columns[Len(result.columns)]

\* The last target's column when its pass begins, in ten-thousandths.
LastColumn == Numbers(BeforePass(Len(result.columns)), LastTarget)

\* Of the rows present when the last target's pass begins, exactly those whose stored
\* value is >= 0 are in the output, with the stored value in the target column.
KeptByStoredValue ==
    LET pre == BeforePass(Len(result.columns))
        xs == LastColumn
        kept == FilterSeq(Indices(pre), {i \in 1..len(pre) : Stored(xs[i], xs) >= 0})
    IN  /\ len(result.table) = Len(kept)
        /\ \A j \in 1..Len(kept) :
               result.table.rows[j] =
                   [pre.rows[kept[j]] EXCEPT ![LastTarget] = Num(Stored(xs[kept[j]], xs))]

\* C22 as stated: the negative-row filter of a numeric target works on the clamped
\* and rounded values, the percentiles being those of all rows present when the pass
\* begins, and a row whose original value is negative is kept only when the column's
\* 1st percentile is non-negative or rounds to zero.
C22_KeptNegativeNeedsPercentile ==
    (IsCleaned /\ LastTarget \in NumericTargets)
    => /\ KeptByStoredValue
       /\ \A i \in 1..Len(LastColumn) :
              (LastColumn[i] < 0 /\ Stored(LastColumn[i], LastColumn) >= 0)
              => \/ quantile(LastColumn, 1) >= 0
                 \/ round2(quantile(LastColumn, 1)) = 0

\* C22 as amended: the negative-row filter of a numeric target works on the clamped
\* and rounded values, the percentiles being those of all rows present when the pass
\* begins; a row whose original value is negative is kept only when the column's
\* 1st percentile is non-negative or rounds to zero, or the value itself rounds to zero.
C22_FilterAfterClamp ==
    (IsCleaned /\ LastTarget \in NumericTargets)
    => /\ KeptByStoredValue
       /\ \A i \in 1..Len(LastColumn) :
              (LastColumn[i] < 0 /\ Stored(LastColumn[i], LastColumn) >= 0)
              => \/ quantile(LastColumn, 1) >= 0
                 \/ round2(quantile(LastColumn, 1)) = 0
                 \/ round2(100 * LastColumn[i]) = 0

\* A row with a negative value was clamped up to a positive one and kept.
C22_Witness ==
    /\ IsCleaned /\ result.columns = <<"Qty">>
    /\ len(result.given) = 2 /\ len(result.table) = 2
    /\ result.given.rows[1].Qty.n < 0 /\ result.table.rows[1].Qty.n > 0


\* ---------------------------------------------------------------- the sampler alone
SmallSettings == {[min |-> a, max |-> b] : a \in 1..MaxBound, b \in 1..MaxBound}
DefaultSettings == [min |-> SAMPLE_MIN_ROWS, max |-> SAMPLE_MAX_ROWS]

SamplerInit ==
    /\ \/ /\ settings \in SmallSettings
          /\ df \in {IdTable(n) : n \in (0..MaxSampleRows) \cup {WideRows}}
       \/ /\ settings = DefaultSettings
          /\ df \in {IdTable(ExampleSmallRows), IdTable(ExampleLargeRows)}
    /\ rng \in 0..MaxOtherSeed
    /\ openFigs = 0
    /\ result = NoResult
    /\ drawn = NoDraw
    /\ otherDraws = 0
    /\ ThreadsIdle
    /\ ServicesIdle
    /\ SessionWithTable

\* Other code of the process draws a number from the shared generator.
OtherRandomDraw ==
    /\ result = NoResult
    /\ otherDraws < MaxOtherDraws
    /\ rng' = RngStep(rng)
    /\ otherDraws' = otherDraws + 1
    /\ UNCHANGED <<call, files, requests, df, settings, openFigs, result, drawn, tpc, tlen, tsel, attached, chat>>

\* Other code of the process reseeds the shared generator.
OtherRandomSeed ==
    /\ result = NoResult
    /\ otherDraws < MaxOtherDraws
    /\ \E a \in 0..MaxOtherSeed : rng' = RngSeed(a)
    /\ otherDraws' = otherDraws + 1
    /\ UNCHANGED <<call, files, requests, df, settings, openFigs, result, drawn, tpc, tlen, tsel, attached, chat>>

SamplerNext == SampleDf \/ OtherRandomDraw \/ OtherRandomSeed \/ Consume

SpecSampler == SamplerInit /\ [][SamplerNext]_vars

Clamp(x, lo, hi) == IF x < lo THEN lo ELSE IF x > hi THEN hi ELSE x

IsSample == result.op = "sample_df"

\* C6: with bounds min <= max, sample_df returns exactly clamp(row count, min, max)
\* rows when the table has more rows than that, and otherwise the table itself, all
\* rows in their order; bounds (200, 400) give 400 rows of 1000 and all of 100 rows.
C6_SampleSize ==
    (IsSample /\ settings.min <= settings.max)
    => LET target == Clamp(len(df), settings.min, settings.max)
       IN  IF len(df) > target
           THEN len(result.table) = target /\ Len(result.sel) = target
           ELSE /\ result.same /\ result.table = df
                /\ result.sel = [i \in 1..len(df) |-> i - 1]

C6_Witness ==
    /\ IsSample /\ settings = DefaultSettings
    /\ len(df) = ExampleLargeRows /\ len(result.table) = SAMPLE_MAX_ROWS

\* C7: every sample_df call on a table of a given row count selects the same row
\* positions in the same order as the first such call, whatever drew from or
\* reseeded the generator in between; the positions are pairwise distinct and lie
\* within the table.
C7_SameSelectionEveryCall ==
    IsSample
    => /\ result.sel = drawn.sel
       /\ \A i \in 1..Len(result.sel) : result.sel[i] \in 0..(len(df) - 1)
       /\ \A i, j \in 1..Len(result.sel) : i # j => result.sel[i] # result.sel[j]
       /\ result.table = iloc(df, result.sel)

\* A second sampling call, made after other code used the generator.
C7_Witness ==
    /\ IsSample /\ ~result.same /\ Len(result.sel) >= 2
    /\ drawn.count = 2 /\ otherDraws > drawn.at


\* ---------------------------------------------------------------- two threads in sample_df
\* Each thread calls sample_df on a table of its own; the generator of module random
\* is the one object they share. A thread's steps are the statements of sample_df.
ThreadSettings == {st \in SmallSettings : st.min <= st.max}

ThreadsInit ==
    /\ settings \in ThreadSettings
    /\ df = IdTable(0)
    /\ rng \in 0..MaxOtherSeed
    /\ openFigs = 0
    /\ result = NoResult
    /\ drawn = NoDraw
    /\ otherDraws = 0
    /\ ThreadsIdle
    /\ ServicesIdle
    /\ SessionWithTable

\* Thread t enters sample_df with a table of more rows than the maximum bound,
\* computes n and finds len(df) > n.
ThreadEnter(t) ==
    /\ tpc[t] = "idle"
    /\ \E rows \in (settings.max + 1)..MaxSampleRows :
           /\ rows > SampleTarget(settings, rows)
           /\ tlen' = [tlen EXCEPT ![t] = rows]
    /\ tpc' = [tpc EXCEPT ![t] = "seed"]
    /\ tsel' = [tsel EXCEPT ![t] = <<>>]
    /\ UNCHANGED <<call, files, requests, df, settings, rng, openFigs, result, drawn, otherDraws, attached, chat>>

\* Thread t executes random.seed(42).
ThreadSeed(t) ==
    /\ tpc[t] = "seed"
    /\ rng' = SampleSeed(rng)
    /\ tpc' = [tpc EXCEPT ![t] = "sample"]
    /\ UNCHANGED <<call, files, requests, df, settings, openFigs, result, drawn, otherDraws, tlen, tsel, attached, chat>>

\* Thread t executes random.sample(range(len(df)), n) on the generator as it stands
\* (taken as one step; a switch inside the sampling loop only adds interleavings).
ThreadSample(t) ==
    /\ tpc[t] = "sample"
    /\ LET d == random_sample(rng, tlen[t], SampleTarget(settings, tlen[t]))
       IN  /\ tsel' = [tsel EXCEPT ![t] = d.sel]
           /\ rng' = d.rng
    /\ tpc' = [tpc EXCEPT ![t] = "done"]
    /\ UNCHANGED <<call, files, requests, df, settings, openFigs, result, drawn, otherDraws, tlen, attached, chat>>

\* Thread t returns df.iloc[...] to its caller.
ThreadReturn(t) ==
    /\ tpc[t] = "done"
    /\ tpc' = [tpc EXCEPT ![t] = "idle"]
    /\ UNCHANGED <<call, files, requests, df, settings, rng, openFigs, result, drawn, otherDraws, tlen, tsel, attached, chat>>

ThreadsNext ==
    \E t \in Threads : ThreadEnter(t) \/ ThreadSeed(t) \/ ThreadSample(t) \/ ThreadReturn(t)

SpecThreads == ThreadsInit /\ [][ThreadsNext]_vars

\* The selection sample_df returns for a table of the given row count when no other
\* thread touches the generator.
SelectionAlone(rows) ==
    random_sample(RngSeed(SAMPLE_SEED), rows, SampleTarget(settings, rows)).sel

\* C8: when two threads are in sample_df at the same time, each on its own table of
\* more rows than the maximum bound, every interleaving of their seeding and drawing
\* steps gives each call the selection it returns when run alone.
C8_ConcurrentSelectionAsAlone ==
    \A t \in Threads : tpc[t] = "done" => tsel[t] = SelectionAlone(tlen[t])


\* ---------------------------------------------------------------- coerce_numeric
\* A column (pd.Series) is its dtype and its cells in order.
Column(dtype, values) == [dtype |-> dtype, values |-> values]

Digits == {"0", "1", "2", "3", "4", "5", "6", "7", "8", "9"}

DigitValue(c) ==
    CASE c = "0" -> 0 [] c = "1" -> 1 [] c = "2" -> 2 [] c = "3" -> 3 [] c = "4" -> 4
      [] c = "5" -> 5 [] c = "6" -> 6 [] c = "7" -> 7 [] c = "8" -> 8 [] c = "9" -> 9

\* The characters of cs that are in keep, order kept.
RECURSIVE KeepChars(_, _)
KeepChars(cs, keep) ==
    IF cs = <<>> THEN <<>>
    ELSE IF Head(cs) \in keep THEN <<Head(cs)>> \o KeepChars(Tail(cs), keep)
         ELSE KeepChars(Tail(cs), keep)

\* col.astype(str) on one cell: a null becomes the text "nan".
AsStr(cell) == IF cell.t = "null" THEN Chars("nan") ELSE Chars(cell.s)

\* .str.replace(_CURRENCY_RE, "", regex=True): drops what is not digit, ".", "," or "-".
_CURRENCY_RE(cs) == KeepChars(cs, Digits \cup {".", ",", "-"})

\* .str.replace(",", "")
DropCommas(cs) == KeepChars(cs, Range(cs) \ {","})

RECURSIVE DigitsValue(_)
DigitsValue(ds) ==
    IF ds = <<>> THEN 0 ELSE 10 * DigitsValue(SubSeq(ds, 1, Len(ds) - 1)) + DigitValue(ds[Len(ds)])

\* pd.to_numeric(..., errors="coerce") on one text: an optional "-", digits with at
\* most one ".", at least one digit; the value in hundredths. Anything else is NaN.
to_numeric(cs) ==
    LET neg == cs # <<>> /\ cs[1] = "-"
        body == IF neg THEN Tail(cs) ELSE cs
        dots == {i \in 1..Len(body) : body[i] = "."}
        dot == IF dots = {} THEN Len(body) + 1 ELSE CHOOSE i \in dots : TRUE
        whole == SubSeq(body, 1, dot - 1)
        frac == SubSeq(body, dot + 1, Len(body))
        frac2 == SubSeq(frac \o <<"0", "0">>, 1, 2)
        ok == /\ \A i \in 1..Len(body) : body[i] \in Digits \cup {"."}
              /\ Cardinality(dots) <= 1
              /\ Len(whole) + Len(frac) >= 1
        mag == 100 * DigitsValue(whole) + DigitsValue(frac2)
    IN  IF ok THEN [ok |-> TRUE, n |-> IF neg THEN -mag ELSE mag, whole |-> dots = {}]
        ELSE [ok |-> FALSE, n |-> 0, whole |-> FALSE]

\* nums.notna().mean() > 0.10
MeetsThreshold_above(notna, total) == total > 0 /\ 10 * notna > total

\* nums.notna().mean() >= 0.10; the mean of an empty column is NaN, and NaN >= 0.10
\* is False.
MeetsThreshold(notna, total) == total > 0 /\ 10 * notna >= total

\* coerce_numeric(col): the returned column, and whether it is the argument itself.
coerce_numeric(col) ==
    IF is_numeric_dtype(col.dtype) THEN [col |-> col, same |-> TRUE]
    ELSE IF is_datetime64_any_dtype(col.dtype) THEN [col |-> col, same |-> TRUE]
    ELSE IF col.dtype = "bool"
    THEN [col |-> Column("int64", col.values), same |-> FALSE]
    ELSE IF col.dtype = "object"
    THEN LET cleaned == [i \in 1..Len(col.values) |->
                            DropCommas(_CURRENCY_RE(AsStr(col.values[i])))]
             nums == [i \in 1..Len(cleaned) |-> to_numeric(cleaned[i])]
             notna == Cardinality({i \in 1..Len(nums) : nums[i].ok})
             ints == \A i \in 1..Len(nums) : nums[i].ok /\ nums[i].whole
         IN  IF MeetsThreshold(notna, Len(nums))
             THEN [col |-> Column(IF ints THEN "int64" ELSE "float64",
                                  [i \in 1..Len(nums) |->
                                      IF nums[i].ok THEN Num(nums[i].n) ELSE NaN]),
                   same |-> FALSE]
             ELSE [col |-> col, same |-> TRUE]
    ELSE [col |-> col, same |-> TRUE]

\* Texts that parse after stripping, and texts that do not.
ParsableTexts == <<"12", "$1,234.50", "-7.5", "3 kg", ".25">>
UnparsableTexts == <<"abc", "N/A", "1.2.3", "-", "1-2", "">>

\* The i-th text of a pool, the pool repeated as often as needed.
Nth(pool, i) == pool[((i - 1) % Len(pool)) + 1]

\* A text column of a parsable, b unparsable and c null cells, nulls last or first.
TextColumn(a, b, c, nullsFirst) ==
    LET texts == [i \in 1..(a + b) |->
                     IF i <= a THEN Str(Nth(ParsableTexts, i))
                     ELSE Str(Nth(UnparsableTexts, i - a))]
        nulls == [i \in 1..c |-> NaN]
    IN  Column("object", IF nullsFirst THEN nulls \o texts ELSE texts \o nulls)

TextColumns ==
    {TextColumn(a, b, c, f) : a \in 0..MaxEntries, b \in 0..MaxEntries, c \in 0..MaxEntries,
                              f \in BOOLEAN}

\* Columns pandas already read with a type.
TypedColumns ==
    {Column("int64", <<Num(100), Num(200)>>), Column("float64", <<Num(150), NaN>>),
     Column("bool", <<Num(100), Num(0)>>), Column("datetime64", <<Ts(1), Ts(2)>>),
     Column("category", <<Str("abc"), Str("12")>>)}

Columns == {col \in TextColumns : Len(col.values) <= MaxEntries} \cup TypedColumns

CoerceInit ==
    /\ df = IdTable(0)
    /\ settings = ChartSettings
    /\ rng = 0
    /\ openFigs = 0
    /\ result = NoResult
    /\ drawn = NoDraw
    /\ otherDraws = 0
    /\ ThreadsIdle
    /\ ServicesIdle
    /\ SessionWithTable

\* A call of coerce_numeric on one column of an uploaded sheet.
CoerceNumeric ==
    \E col \in Columns :
        /\ result = NoResult
        /\ LET r == coerce_numeric(col)
           IN  result' = [op |-> "coerce_numeric", col |-> col, out |-> r.col,
                          same |-> r.same]
        /\ UNCHANGED <<call, files, requests, df, settings, rng, openFigs, drawn, otherDraws, tpc, tlen, tsel, attached, chat>>

CoerceNext == CoerceNumeric \/ Consume

SpecCoerce == CoerceInit /\ [][CoerceNext]_vars

IsCoerce == result.op = "coerce_numeric"

IsTextColumn == result.col.dtype = "object"

Entries == Len(result.col.values)

NonNull == {i \in 1..Entries : result.col.values[i].t # "null"}

\* The entries that parse as numbers once currency symbols and separators are gone.
Parsable ==
    {i \in NonNull : to_numeric(DropCommas(_CURRENCY_RE(Chars(result.col.values[i].s)))).ok}

\* The call returned a numeric column of the same length: numbers where the entry
\* parses, null elsewhere.
Converted ==
    /\ is_numeric_dtype(result.out.dtype)
    /\ Len(result.out.values) = Entries
    /\ \A i \in 1..Entries : IF i \in Parsable THEN result.out.values[i].t = "num"
                             ELSE result.out.values[i] = NaN

\* The call returned its argument, still text.
LeftAsText == result.same /\ result.out = result.col

\* C9 as stated: a text column without nulls is converted exactly when the entries
\* that parse are at least 10% of its entries, and is returned unchanged otherwise.
C9_ConvertedIffTenPercent ==
    (IsCoerce /\ IsTextColumn /\ Cardinality(NonNull) = Entries)
    => IF 10 * Cardinality(Parsable) >= Entries THEN Converted ELSE LeftAsText

\* C9 amended: a text column without nulls that has at least one entry is converted
\* exactly when the entries that parse are at least 10% of its entries, the entries
\* that do not parse becoming null and the length kept; below 10%, and when the
\* column has no entry at all, it is returned unchanged as text.
C9_NonEmptyConvertedIffTenPercent ==
    (IsCoerce /\ IsTextColumn /\ Cardinality(NonNull) = Entries)
    => IF Entries > 0 /\ 10 * Cardinality(Parsable) >= Entries THEN Converted
       ELSE LeftAsText

\* Exactly one entry of ten parses: converted, the other nine null.
C9_Witness ==
    /\ IsCoerce /\ IsTextColumn /\ Entries = 10 /\ Cardinality(NonNull) = 10
    /\ Cardinality(Parsable) = 1
    /\ Converted /\ result.out.values[1] = Num(1200) /\ result.out.values[2] = NaN

\* C10: a text column with nulls is converted whenever at least 10% of its non-null
\* values parse as numbers, however many nulls it holds.
C10_ThresholdOverNonNull ==
    (IsCoerce /\ IsTextColumn /\ NonNull # {}
        /\ 10 * Cardinality(Parsable) >= Cardinality(NonNull))
    => Converted

\* C11: coerce_numeric on a boolean column returns an integer column of the same
\* length with 1 for every True and 0 for every False.
C11_BoolBecomesInt ==
    (IsCoerce /\ result.col.dtype = "bool")
    => /\ result.out.dtype = "int64"
       /\ Len(result.out.values) = Entries
       /\ \A i \in 1..Entries : result.out.values[i] = result.col.values[i]


\* ---------------------------------------------------------------- upload
\* Column c of table t as a pd.Series.
ColumnOf(t, c) == Column(t.dtype[c], [i \in 1..len(t) |-> t.rows[i][c]])

\* df.apply(func) with func = coerce_numeric: the table of the coerced columns.
apply_coerce_numeric(t) ==
    LET out == [c \in ColumnSet(t) |-> coerce_numeric(ColumnOf(t, c)).col]
    IN  Table(t.columns, [c \in ColumnSet(t) |-> out[c].dtype],
              [i \in 1..len(t) |-> [c \in ColumnSet(t) |-> out[c].values[i]]])

\* The file types upload is used with.
CsvExt == ".csv"
SheetExts == {".xlsx", ".xls", ".xlsm", ".ods"}
Extensions == {CsvExt} \cup SheetExts

\* read_excel_any(data, filename) on a readable file; parsed is the table the
\* pandas reader (read_csv or read_excel) makes of the bytes.
read_excel_any(ext, parsed) ==
    IF ext = CsvExt THEN parsed ELSE apply_coerce_numeric(parsed)

\* Tables as the pandas readers produce them: a text column, a column of amounts
\* written as text (a reader types a column as text when a cell of it is not a plain
\* number), and a column read as numbers.
SheetCells == <<Str("3 kg"), Str("$1,234.50"), Str("abc"), NaN>>

SheetRows ==
    {[Category |-> Str("Food"), Amount |-> SheetCells[a], Qty |-> Num(100 * a)] :
        a \in 1..Len(SheetCells)}

SheetDtype == [Category |-> "object", Amount |-> "object", Qty |-> "int64"]

Sheets ==
    {Table(<<"Category", "Amount", "Qty">>, SheetDtype, rows) :
        rows \in {rs \in UNION {[1..n -> SheetRows] : n \in 1..MaxSheetRows} :
                     \E i \in DOMAIN rs : rs[i].Amount.t = "str"}}

NoTable == Table(<<>>, <<>>, <<>>)

\* A session without a table and only the system message in its history.
SessionInit ==
    /\ df = NoTable
    /\ attached = FALSE
    /\ chat = NewChat
    /\ settings = ChartSettings
    /\ rng = 0
    /\ openFigs = 0
    /\ result = NoResult
    /\ drawn = NoDraw
    /\ otherDraws = 0
    /\ ThreadsIdle
    /\ ServicesIdle

\* POST /upload: read the file, attach the table to the session; a file the
\* reader cannot parse is answered with HTTP 400 and leaves the session as it was.
Upload ==
    \E ext \in Extensions, parsed \in Sheets, readable \in BOOLEAN :
        /\ result = NoResult
        /\ IF readable
           THEN /\ df' = read_excel_any(ext, parsed)
                /\ attached' = TRUE
                /\ result' = [op |-> "upload", ext |-> ext, parsed |-> parsed,
                              outcome |-> "return"]
           ELSE /\ result' = [op |-> "upload", ext |-> ext, parsed |-> parsed,
                              outcome |-> "raise"]
                /\ UNCHANGED <<df, attached>>
        /\ UNCHANGED <<call, files, requests, settings, rng, openFigs, drawn, otherDraws, tpc, tlen, tsel, chat>>


\* ---------------------------------------------------------------- directive extraction
\* Texts are sequences of characters.
Whitespace == {" ", "\n", "\t"}

\* str.strip()
RECURSIVE LStrip(_)
LStrip(cs) == IF cs # <<>> /\ Head(cs) \in Whitespace THEN LStrip(Tail(cs)) ELSE cs

RECURSIVE RStrip(_)
RStrip(cs) ==
    IF cs # <<>> /\ cs[Len(cs)] \in Whitespace THEN RStrip(SubSeq(cs, 1, Len(cs) - 1)) ELSE cs

strip(cs) == RStrip(LStrip(cs))

\* The backquote character (a string cannot hold it).
Backquote == "BACKQUOTE"

Fence == <<Backquote, Backquote, Backquote>>

startswith(cs, w) == Len(cs) >= Len(w) /\ SubSeq(cs, 1, Len(w)) = w
endswith(cs, w) == Len(cs) >= Len(w) /\ SubSeq(cs, Len(cs) - Len(w) + 1, Len(cs)) = w

\* The positions of character c in cs.
Positions(cs, c) == {i \in 1..Len(cs) : cs[i] = c}

Least(S) == CHOOSE i \in S : \A j \in S : i <= j
Greatest(S) == CHOOSE i \in S : \A j \in S : i >= j

\* The substitution with a greedy first alternative (^```.*\n): it removes up to
\* the last line break.
StripFence_greedy(blob) ==
    LET breaks == {i \in Positions(blob, "\n") : i > Len(Fence)}
        opened == IF startswith(blob, Fence) /\ breaks # {}
                  THEN SubSeq(blob, Greatest(breaks) + 1, Len(blob)) ELSE blob
    IN  IF endswith(opened, Fence) THEN SubSeq(opened, 1, Len(opened) - Len(Fence))
        ELSE opened

\* re.sub(r"^```.*?\n|```$", "", blob, flags=re.DOTALL): at the start, a fence and
\* what follows it up to and including the first line break; at the end, a fence.
StripFence(blob) ==
    LET breaks == {i \in Positions(blob, "\n") : i > Len(Fence)}
        opened == IF startswith(blob, Fence) /\ breaks # {}
                  THEN SubSeq(blob, Least(breaks) + 1, Len(blob)) ELSE blob
    IN  IF endswith(opened, Fence) THEN SubSeq(opened, 1, Len(opened) - Len(Fence))
        ELSE opened

NoMatch == [found |-> FALSE, span |-> <<>>]

\* The search with a lazy pattern (\{.*?\}): from the first "{" to the first "}" after it.
SearchBraces_lazy(blob) ==
    LET opens == Positions(blob, "{")
    IN  IF opens = {} THEN NoMatch
        ELSE LET closes == {j \in Positions(blob, "}") : j > Least(opens)}
             IN  IF closes = {} THEN NoMatch
                 ELSE [found |-> TRUE, span |-> SubSeq(blob, Least(opens), Least(closes))]

\* re.search(r"(\{.*\})", blob, flags=re.DOTALL): from the first "{" to the last "}"
\* after it.
SearchBraces(blob) ==
    LET opens == Positions(blob, "{")
    IN  IF opens = {} THEN NoMatch
        ELSE LET closes == {j \in Positions(blob, "}") : j > Least(opens)}
             IN  IF closes = {} THEN NoMatch
                 ELSE [found |-> TRUE, span |-> SubSeq(blob, Least(opens), Greatest(closes))]

\* ---------------------------------------------------------------- json.loads
\* A parsed value: its type and, in v, the characters of a string, number or
\* literal, the items of an array, or the members [k, val] of an object.
JStr(cs) == [t |-> "str", v |-> cs]
JNum(cs) == [t |-> "num", v |-> cs]
JLit(cs) == [t |-> "lit", v |-> cs]
JArr(items) == [t |-> "arr", v |-> items]
JObj(members) == [t |-> "obj", v |-> members]

\* The outcome of parsing from a position: the value and the position after it.
Parsed(v, next) == [ok |-> TRUE, v |-> v, next |-> next]
ParseFail == [ok |-> FALSE, v |-> JLit(<<>>), next |-> 0]

\* The character at position i, "" past the end.
At(cs, i) == IF i \in 1..Len(cs) THEN cs[i] ELSE ""

\* The first position from i on whose character is not in set.
RECURSIVE RunEnd(_, _, _)
RunEnd(cs, i, set) == IF At(cs, i) \in set THEN RunEnd(cs, i + 1, set) ELSE i

SkipWs(cs, i) == RunEnd(cs, i, Whitespace)

\* A string from its opening quote at i (texts with escape sequences are not among
\* the modelled replies; a raw line break inside a string is an error).
ParseString(cs, i) ==
    LET closes == {j \in (i + 1)..Len(cs) : cs[j] = "\""}
    IN  IF At(cs, i) # "\"" \/ closes = {} THEN ParseFail
        ELSE LET j == Least(closes)
                 inner == SubSeq(cs, i + 1, j - 1)
             IN  IF \E k \in 1..Len(inner) : inner[k] \in {"\\", "\n", "\t"} THEN ParseFail
                 ELSE Parsed(JStr(inner), j + 1)

\* A number: an optional "-", digits without a leading zero, an optional fraction.
ParseNumber(cs, i) ==
    LET start == IF At(cs, i) = "-" THEN i + 1 ELSE i
        intEnd == RunEnd(cs, start, Digits)
        fracEnd == IF At(cs, intEnd) = "." THEN RunEnd(cs, intEnd + 1, Digits) ELSE intEnd
    IN  IF intEnd = start \/ (At(cs, start) = "0" /\ intEnd > start + 1) THEN ParseFail
        ELSE IF At(cs, intEnd) = "." /\ fracEnd = intEnd + 1 THEN ParseFail
        ELSE Parsed(JNum(SubSeq(cs, i, fracEnd - 1)), fracEnd)

Literals == {<<"t", "r", "u", "e">>, <<"f", "a", "l", "s", "e">>, <<"n", "u", "l", "l">>}

ParseLiteral(cs, i) ==
    LET fits == {w \in Literals : SubSeq(cs, i, Min2(Len(cs), i + Len(w) - 1)) = w}
    IN  IF fits = {} THEN ParseFail
        ELSE LET w == CHOOSE x \in fits : TRUE IN Parsed(JLit(w), i + Len(w))

RECURSIVE ParseValue(_, _)
RECURSIVE ParseElements(_, _, _)
RECURSIVE ParseMembers(_, _, _)

\* The items of an array from the first item at i, up to its "]".
ParseElements(cs, i, acc) ==
    LET e == ParseValue(cs, i)
        j == SkipWs(cs, e.next)
    IN  IF ~e.ok THEN ParseFail
        ELSE IF At(cs, j) = "," THEN ParseElements(cs, SkipWs(cs, j + 1), Append(acc, e.v))
        ELSE IF At(cs, j) = "]" THEN Parsed(JArr(Append(acc, e.v)), j + 1)
        ELSE ParseFail

\* The members of an object from the first key at i, up to its "}".
ParseMembers(cs, i, acc) ==
    LET k == ParseString(cs, i)
        colon == SkipWs(cs, k.next)
        e == ParseValue(cs, SkipWs(cs, colon + 1))
        j == SkipWs(cs, e.next)
        member == [k |-> k.v.v, val |-> e.v]
    IN  IF ~k.ok \/ At(cs, colon) # ":" THEN ParseFail
        ELSE IF ~e.ok THEN ParseFail
        ELSE IF At(cs, j) = "," THEN ParseMembers(cs, SkipWs(cs, j + 1), Append(acc, member))
        ELSE IF At(cs, j) = "}" THEN Parsed(JObj(Append(acc, member)), j + 1)
        ELSE ParseFail

ParseValue(cs, i) ==
    LET c == At(cs, i)
        j == SkipWs(cs, i + 1)
    IN  IF c = "\"" THEN ParseString(cs, i)
        ELSE IF c = "[" THEN (IF At(cs, j) = "]" THEN Parsed(JArr(<<>>), j + 1)
                              ELSE ParseElements(cs, j, <<>>))
        ELSE IF c = "{" THEN (IF At(cs, j) = "}" THEN Parsed(JObj(<<>>), j + 1)
                              ELSE ParseMembers(cs, j, <<>>))
        ELSE IF c \in Digits \cup {"-"} THEN ParseNumber(cs, i)
        ELSE ParseLiteral(cs, i)

\* json.loads(text): one value with only whitespace around it; ok is FALSE where
\* json.loads raises JSONDecodeError.
json_loads(cs) ==
    LET e == ParseValue(cs, SkipWs(cs, 1))
    IN  IF e.ok /\ SkipWs(cs, e.next) = Len(cs) + 1 THEN e ELSE ParseFail

\* dict.get(key): the value of the last member with that key.
Get(obj, key) ==
    LET at == {i \in 1..Len(obj.v) : obj.v[i].k = key}
    IN  IF at = {} THEN [has |-> FALSE, val |-> JLit(<<>>)]
        ELSE [has |-> TRUE, val |-> obj.v[Greatest(at)].val]


\* ---------------------------------------------------------------- chat
\* The names a parsed text can stand for; any other text is no kind and no column.
KnownNames == Kinds \cup {"Category", "Amount", "Qty", "Missing", "Date"}
UnknownName == "?"

\* The str whose characters are cs.
Text(cs) ==
    IF \E n \in KnownNames : Chars(n) = cs THEN CHOOSE n \in KnownNames : Chars(n) = cs
    ELSE UnknownName

NoDirective ==
    [found |-> FALSE, plot |-> FALSE, hasKind |-> FALSE, kind |-> "", iterable |-> TRUE,
     columns |-> <<>>, hasTitle |-> FALSE, title |-> <<>>]

\* A list value as make_chart iterates it: the items of an array, the characters of
\* a string, the keys of an object.
NamesOf(val) ==
    IF val.t = "arr"
    THEN [i \in 1..Len(val.v) |-> IF val.v[i].t = "str" THEN Text(val.v[i].v) ELSE UnknownName]
    ELSE IF val.t = "str" THEN [i \in 1..Len(val.v) |-> Text(<<val.v[i]>>)]
    ELSE IF val.t = "obj" THEN [i \in 1..Len(val.v) |-> Text(val.v[i].k)]
    ELSE <<>>

\* What the chart handling of chat reads from the model's reply: whether a brace
\* span was found and parsed, whether it is a plot directive, and its fields
\* (spec["kind"], spec.get("columns", []), spec.get("title", ...)).
directive(assistant_text) ==
    LET stripped == strip(assistant_text)
        blob == IF startswith(stripped, Fence) THEN StripFence(stripped) ELSE stripped
        m == SearchBraces(blob)
        spec == json_loads(m.span)
        action == Get(spec.v, Chars("action"))
        kind == Get(spec.v, Chars("kind"))
        columns == Get(spec.v, Chars("columns"))
        title == Get(spec.v, Chars("title"))
    IN  IF ~m.found \/ ~spec.ok THEN NoDirective
        ELSE IF ~(action.has /\ action.val.t = "str" /\ action.val.v = Chars("plot"))
        THEN [NoDirective EXCEPT !.found = TRUE]
        ELSE [found |-> TRUE, plot |-> TRUE,
              hasKind |-> kind.has,
              kind |-> IF kind.has /\ kind.val.t = "str" THEN Text(kind.val.v)
                       ELSE UnknownName,
              iterable |-> ~columns.has \/ columns.val.t \in {"arr", "str", "obj"},
              columns |-> IF columns.has THEN NamesOf(columns.val) ELSE <<>>,
              hasTitle |-> title.has /\ title.val.t = "str",
              title |-> IF title.has /\ title.val.t = "str" THEN title.val.v ELSE <<>>]

NoChart == [is |-> "none", action |-> "", message |-> "", exception |-> "", plot |-> NoPlot]

DefaultTitle == Chars("Here's the chart you requested:")

\* The end of a chat request: the response (or the exception that leaves the
\* handler), whether make_chart was called, and the figures open afterwards.
ChatEnd(outcome, error, answer, chart, called, figs, t) ==
    [outcome |-> outcome, error |-> error, answer |-> answer, chart |-> chart,
     called |-> called, figs |-> figs, table |-> t]

\* The chart handling with a parse failure escalated to an error.
chart_handling_strict(t, has, assistant_text, d, figs) ==
    IF ~d.found THEN ChatEnd("raise", "JSONDecodeError", <<>>, NoChart, FALSE, figs, t)
    ELSE IF ~d.plot THEN ChatEnd("return", "", assistant_text, NoChart, FALSE, figs, t)
    ELSE ChatEnd("raise", "HTTPException", <<>>, NoChart, FALSE, figs, t)

\* The chart handling with the renderer called before the dataset is looked at.
chart_handling_unchecked(t, has, assistant_text, d, figs) ==
    LET r == make_chart(t, d.kind, d.columns, "", figs).call
    IN  IF ~d.plot THEN ChatEnd("return", "", assistant_text, NoChart, FALSE, figs, t)
        ELSE IF r.outcome = "raise"
        THEN ChatEnd("return", "", assistant_text, NoChart, TRUE, r.figs, r.caller)
        ELSE ChatEnd("return", "", DefaultTitle, r.value, TRUE, r.figs, r.caller)

\* The chart handling without the except clause for ValueError.
chart_handling_unhandled(t, has, assistant_text, d, figs) ==
    LET r == make_chart(t, d.kind, d.columns, "", figs).call
    IN  IF ~d.plot THEN ChatEnd("return", "", assistant_text, NoChart, FALSE, figs, t)
        ELSE IF ~has THEN ChatEnd("raise", "HTTPException", <<>>, NoChart, FALSE, figs, t)
        ELSE IF ~d.hasKind THEN ChatEnd("raise", "KeyError", <<>>, NoChart, FALSE, figs, t)
        ELSE IF r.outcome = "raise"
        THEN ChatEnd("raise", r.value.exception, <<>>, NoChart, TRUE, r.figs, r.caller)
        ELSE ChatEnd("return", "", IF d.hasTitle THEN d.title ELSE DefaultTitle, r.value,
                     TRUE, r.figs, r.caller)

\* The chart handling of chat (routes.py 306-328) for a reply the model returned,
\* d being the directive read from it.
chart_handling(t, has, assistant_text, d, figs) ==
    LET r == make_chart(t, d.kind, d.columns, "", figs).call
    IN  IF ~d.plot THEN ChatEnd("return", "", assistant_text, NoChart, FALSE, figs, t)
        ELSE IF ~has THEN ChatEnd("raise", "HTTPException", <<>>, NoChart, FALSE, figs, t)
        ELSE IF ~d.hasKind THEN ChatEnd("raise", "KeyError", <<>>, NoChart, FALSE, figs, t)
        ELSE IF ~d.iterable THEN ChatEnd("raise", "TypeError", <<>>, NoChart, TRUE, figs, t)
        ELSE IF r.outcome = "raise"
        THEN IF r.value.exception = "ValueError"
             THEN ChatEnd("return", "", assistant_text, NoChart, TRUE, r.figs, r.caller)
             ELSE ChatEnd("raise", r.value.exception, <<>>, NoChart, TRUE, r.figs, r.caller)
        ELSE ChatEnd("return", "", IF d.hasTitle THEN d.title ELSE DefaultTitle, r.value,
                     TRUE, r.figs, r.caller)

\* ---------------------------------------------------------------- the model's replies
Quote == "\""

JsonString(name) == <<Quote>> \o Chars(name) \o <<Quote>>

\* The parts joined by sep.
RECURSIVE Join(_, _)
Join(parts, sep) ==
    IF parts = <<>> THEN <<>>
    ELSE IF Len(parts) = 1 THEN parts[1]
    ELSE parts[1] \o sep \o Join(Tail(parts), sep)

JsonList(names) ==
    <<"[">> \o Join([i \in 1..Len(names) |-> JsonString(names[i])], <<",", " ">>) \o <<"]">>

Member(key, value) == JsonString(key) \o <<":", " ">> \o value

\* An object written on one line, or one member per line.
JsonObject(members, style) ==
    IF style = "line" THEN <<"{">> \o Join(members, <<",", " ">>) \o <<"}">>
    ELSE <<"{", "\n", " ", " ">> \o Join(members, <<",", "\n", " ", " ">>) \o <<"\n", "}">>

\* The JSON text of the plot directive d = [kind, columns].
DirectiveJson(d, style) ==
    JsonObject(<<Member("action", JsonString("plot")), Member("kind", JsonString(d.kind)),
                 Member("columns", JsonList(d.columns))>>, style)

\* The text inside a fenced block, with or without a language tag, or after prose.
Fenced(text, tag) == Fence \o tag \o <<"\n">> \o text \o <<"\n">> \o Fence

Wrap(text, wrap) ==
    CASE wrap = "bare" -> text
      [] wrap = "fence" -> Fenced(text, <<>>)
      [] wrap = "tagged" -> Fenced(text, Chars("json"))
      [] wrap = "prose" -> Chars("Spending by category") \o <<"\n">> \o Fenced(text, Chars("json"))

Directives ==
    {[kind |-> "bar", columns |-> <<"Category", "Amount">>],
     [kind |-> "pie", columns |-> <<"Category">>],
     [kind |-> "scatter", columns |-> <<"Category", "Amount">>],
     [kind |-> "bar", columns |-> <<"Missing">>]}

Styles == {"line", "lines"}
Wraps == {"bare", "fence", "tagged", "prose"}

DirectiveReplies ==
    {Wrap(DirectiveJson(d, style), wrap) : d \in Directives, style \in Styles, wrap \in Wraps}

BarDirective == DirectiveJson([kind |-> "bar", columns |-> <<"Category", "Amount">>], "line")

\* Replies that carry no directive, and directives with fields left out or added.
OtherReplies ==
    {Chars("Hello, how can I help?"),
     <<"u", "s", "e", " ", "{", "x", "}">>,
     <<"}", " ", "{">>,
     BarDirective \o <<" ", "{", "o", "k", "}">>,
     <<"u", "s", "e", " ", "{", "x", "}", " ">> \o BarDirective,
     Fenced(BarDirective \o <<"\n", "{", "o", "k", "}">>, Chars("json")),
     JsonObject(<<Member("action", JsonString("error")),
                  Member("title", JsonString("Hello, how can I help?"))>>, "line"),
     JsonObject(<<Member("kind", JsonString("bar"))>>, "line"),
     JsonObject(<<Member("action", JsonString("plot")),
                  Member("columns", JsonList(<<"Category">>))>>, "line"),
     JsonObject(<<Member("action", JsonString("plot")), Member("kind", JsonString("bar"))>>,
                "line"),
     JsonObject(<<Member("action", JsonString("plot")), Member("kind", JsonString("bar")),
                  Member("columns", JsonList(<<"Category", "Qty">>)),
                  Member("title", JsonString("Spending by category"))>>, "line")}

ModelReplies == DirectiveReplies \cup OtherReplies

ContextModes == {"summary", "sample", "full"}

UserMessages == {"show my spending"}

\* POST /chat: the user's message joins the history, the rows for the prompt are
\* sampled, the model is called, its reply is searched for a plot directive, and
\* the answer joins the history. replied is FALSE when call_openai gives up.
Chat ==
    \E message \in UserMessages, reply \in ModelReplies :
    \E d \in {directive(reply)} :
    \E replied \in BOOLEAN :
    \E e \in {IF replied THEN chart_handling(df, attached, reply, d, openFigs)
              ELSE ChatEnd("raise", "RuntimeError", <<>>, NoChart, FALSE, openFigs, df)} :
    \E mode \in ContextModes :
        /\ result = NoResult
        /\ Len(chat) + 2 <= MaxChatLen
        /\ openFigs < MaxFigs
        /\ ~replied => reply = Chars("Hello, how can I help?")
        /\ LET asked == Append(chat, Message("user", Chars(message)))
               rows == sample_df(rng, settings, df)
           IN  /\ rng' = IF mode = "sample" /\ attached THEN rows.rng ELSE rng
               /\ chat' = IF e.outcome = "return"
                          THEN Append(asked, Message("assistant", e.answer)) ELSE asked
               /\ openFigs' = e.figs
               /\ df' = e.table
               /\ result' = [op |-> "chat", replied |-> replied, reply |-> reply,
                             outcome |-> e.outcome, error |-> e.error, answer |-> e.answer,
                             chart |-> e.chart, called |-> e.called,
                             found |-> replied /\ d.found, plot |-> replied /\ d.plot,
                             hasKind |-> replied /\ d.hasKind,
                             kind |-> IF replied THEN d.kind ELSE "",
                             columns |-> IF replied THEN d.columns ELSE <<>>,
                             hadTable |-> attached, before |-> chat]
        /\ UNCHANGED <<call, files, requests, settings, drawn, otherDraws, tpc, tlen,
                       tsel, attached>>

\* The tables of the sessions that chat: the largest tables of the chart pipeline.
SessionTables == {t \in ChartTables : len(t) = MaxRows /\ "Amount" \in ColumnSet(t)}

\* A session before its first message, with or without an uploaded table.
ChatInit ==
    /\ attached \in BOOLEAN
    /\ df \in IF attached THEN SessionTables ELSE {NoTable}
    /\ chat = NewChat
    /\ settings = ChartSettings
    /\ rng = 0
    /\ openFigs = 0
    /\ result = NoResult
    /\ drawn = NoDraw
    /\ otherDraws = 0
    /\ ThreadsIdle
    /\ ServicesIdle

ChatNext == Chat \/ Consume

SpecChat == ChatInit /\ [][ChatNext]_vars

IsChat == result.op = "chat" /\ result.replied

\* The history after a request that was answered with answer.
Answered(answer) ==
    result.before \o <<Message("user", Chars("show my spending")), Message("assistant", answer)>>

\* C15: when the model's reply has no brace span, or the span is not valid JSON, or
\* the parsed object's action is not "plot", the request completes normally: no
\* error, no chart, the answer is the reply unchanged, and the reply is appended to
\* the history as the assistant's message.
C15_PlainReplyIsPlainChat ==
    (IsChat /\ ~result.plot)
    => /\ result.outcome = "return"
       /\ result.error = ""
       /\ result.chart = NoChart
       /\ result.answer = result.reply
       /\ chat = Answered(result.reply)

\* A reply with a brace span that is not JSON, and one whose action is not "plot",
\* were answered.
C15_Witness ==
    /\ IsChat /\ ~result.plot /\ result.outcome = "return"
    /\ \/ result.reply = <<"u", "s", "e", " ", "{", "x", "}">>
       \/ result.found

\* C16: a plot directive in a session without a dataset fails the request with the
\* "upload your dataset first" error and make_chart is not called; make_chart is
\* never called without a table.
C16_NoDatasetNoRenderer ==
    /\ (IsChat /\ result.plot /\ ~result.hadTable)
       => /\ result.outcome = "raise"
          /\ result.error = "HTTPException"
          /\ ~result.called
    /\ (result.op = "chat" /\ result.called) => result.hadTable

C16_Witness ==
    IsChat /\ result.plot /\ ~result.hadTable /\ result.error = "HTTPException"

\* C17: a plot directive D = (kind, columns) written as JSON inside triple-backtick
\* fences, with or without a language tag, optionally after prose without braces,
\* is recognised as a plot directive with D's kind and D's columns.
C17_FencedDirectiveRoundTrip ==
    \A D \in Directives, style \in Styles, wrap \in Wraps \ {"bare"} :
        (IsChat /\ result.reply = Wrap(DirectiveJson(D, style), wrap))
        => /\ result.plot
           /\ result.kind = D.kind
           /\ result.columns = D.columns

\* A directive written over several lines in a tagged fence was recognised.
C17_Witness ==
    /\ IsChat /\ result.plot
    /\ result.reply = Wrap(DirectiveJson([kind |-> "pie", columns |-> <<"Category">>], "lines"),
                           "tagged")
    /\ result.kind = "pie" /\ result.columns = <<"Category">>

\* A well-formed plot directive with another "{" before it or another "}" after it.
SurroundedDirectives ==
    {BarDirective \o <<" ", "{", "o", "k", "}">>,
     <<"u", "s", "e", " ", "{", "x", "}", " ">> \o BarDirective,
     Fenced(BarDirective \o <<"\n", "{", "o", "k", "}">>, Chars("json"))}

\* C23: only the text from the first "{" to the last "}" of the fence-stripped reply
\* is parsed: a reply that holds a well-formed plot directive and another "{" before
\* it or another "}" after it, the whole span not being JSON, carries no directive
\* and is answered as plain chat.
C23_OnlyTheWholeSpanIsParsed ==
    (IsChat /\ result.reply \in SurroundedDirectives)
    => /\ ~result.plot
       /\ ~result.called
       /\ result.outcome = "return"
       /\ result.chart = NoChart
       /\ result.answer = result.reply
       /\ chat = Answered(result.reply)

\* A directive followed by a second brace span was answered as plain chat in a
\* session with a table.
C23_Witness ==
    /\ IsChat /\ result.hadTable
    /\ result.reply = BarDirective \o <<" ", "{", "o", "k", "}">>
    /\ result.answer = result.reply

\* C26: the chart field of a chat response is absent or an encoded image; when
\* make_chart returns the insufficient-data error for a plot directive the response
\* carries no chart.
C26_ChartFieldIsImageOrAbsent ==
    (result.op = "chat" /\ result.outcome = "return")
    => result.chart = NoChart \/ result.chart.is = "image"

\* The roles of a history: the system message, then user and assistant in turn.
Alternating(history) ==
    /\ Len(history) % 2 = 1
    /\ \A i \in 1..Len(history) :
           history[i].role = IF i = 1 THEN "system" ELSE IF i % 2 = 0 THEN "user" ELSE "assistant"

\* C27: after any sequence of chat requests, ended by a response or by a failure, the
\* stored history is the system message followed by alternating user and assistant
\* messages: no user message is left without its assistant reply.
C27_HistoryAlternates == result = NoResult => Alternating(chat)

\* The plot directive of the reply names no column of the table, or an unsupported
\* kind while at least 3 rows are clean.
InvalidRequest ==
    /\ IsChat /\ result.plot /\ result.hasKind /\ result.hadTable
    /\ \/ FilterSeq(result.columns, ColumnSet(df)) = <<>>
       \/ /\ result.kind \notin SupportedKinds
          /\ len(_clean_chart_data(Frame(df), FilterSeq(result.columns, ColumnSet(df))).frame.work)
                 >= MIN_POINTS

\* C28: when the plot directive of a reply is an invalid request (no column of it
\* exists in the table, columns omitted, or an unsupported kind with at least 3 clean
\* rows), the failure raised by make_chart does not fail the chat request: the
\* response has no chart, its answer is the raw reply, and the reply is appended to
\* the history as the assistant's message.
C28_InvalidRequestIsPlainChat ==
    InvalidRequest
    => /\ result.called
       /\ result.outcome = "return"
       /\ result.error = ""
       /\ result.chart = NoChart
       /\ result.answer = result.reply
       /\ chat = Answered(result.reply)

\* An unsupported kind was requested on a table with 3 clean rows.
C28_Witness ==
    /\ InvalidRequest /\ result.kind = "scatter" /\ result.columns = <<"Category", "Amount">>
    /\ result.outcome = "return"

SessionNext == Upload \/ Consume

SpecSession == SessionInit /\ [][SessionNext]_vars

IsUpload == result.op = "upload" /\ result.outcome = "return"

\* C12: for every accepted file type the table upload stores in the session has
\* had coerce_numeric applied to each of its columns.
C12_UploadedTableIsCoerced ==
    IsUpload
    => \A c \in ColumnSet(df) :
           ColumnOf(df, c) = coerce_numeric(ColumnOf(result.parsed, c)).col


\* ---------------------------------------------------------------- column utilities alone
\* Tables with the columns A, B, Z of every mix of types, and no rows.
TypeMixes == [{"A", "B", "Z"} -> {"int64", "object", "datetime64"}]
SplitTables == {Table(<<"A", "B", "Z">>, mix, <<>>) : mix \in TypeMixes}

\* Requests: lists of at most MaxRequest names, one of them absent from the tables.
RequestNames == {"Z", "A", "Missing", "B"}
Requests == UNION {[1..n -> RequestNames] : n \in 0..MaxRequest}

\* Tables for _best_numeric: up to MaxBestColumns of these columns in any order.
BestNames == {"Category", "Qty", "Paid", "AMOUNT", "Fee"}

BestDtype(c) == IF c = "Category" THEN "object" ELSE "float64"

BestRows ==
    << [Category |-> Str("Food"), Qty |-> Num(-900), Paid |-> Num(200), AMOUNT |-> Num(300),
        Fee |-> Num(400)],
       [Category |-> Str("Rent"), Qty |-> Num(100), Paid |-> NaN, AMOUNT |-> Num(-100),
        Fee |-> Num(-600)] >>

BestSchemas ==
    {cols \in UNION {[1..n -> BestNames] : n \in 0..MaxBestColumns} :
        \A i, j \in DOMAIN cols : i # j => cols[i] # cols[j]}

BestTables ==
    {Table(cols, [c \in Range(cols) |-> BestDtype(c)],
           [i \in 1..n |-> [c \in Range(cols) |-> BestRows[i][c]]]) :
        cols \in BestSchemas, n \in 1..Len(BestRows)}

ColumnsInit ==
    /\ df \in SplitTables \cup BestTables
    /\ settings = ChartSettings
    /\ rng = 0
    /\ openFigs = 0
    /\ result = NoResult
    /\ drawn = NoDraw
    /\ otherDraws = 0
    /\ ThreadsIdle
    /\ ServicesIdle
    /\ SessionWithTable

\* A call of _split_cols on the table.
SplitCols ==
    \E cols \in Requests :
        /\ result = NoResult
        /\ LET r == _split_cols(df, cols)
           IN  result' = [op |-> "_split_cols", columns |-> cols, cats |-> r.cats,
                          nums |-> r.nums]
        /\ UNCHANGED <<call, files, requests, df, settings, rng, openFigs, drawn, otherDraws, tpc, tlen, tsel,
                       attached, chat>>

\* A call of _best_numeric on the table.
BestNumeric ==
    /\ result = NoResult
    /\ result' = [op |-> "_best_numeric", best |-> _best_numeric(df)]
    /\ UNCHANGED <<call, files, requests, df, settings, rng, openFigs, drawn, otherDraws, tpc, tlen, tsel,
                   attached, chat>>

ColumnsNext == SplitCols \/ BestNumeric \/ Consume

SpecColumns == ColumnsInit /\ [][ColumnsNext]_vars

\* sub is req with some positions left out.
RECURSIVE IsSubsequence(_, _)
IsSubsequence(sub, req) ==
    IF sub = <<>> THEN TRUE
    ELSE IF req = <<>> THEN FALSE
    ELSE IF Head(sub) = Head(req) THEN IsSubsequence(Tail(sub), Tail(req))
    ELSE IsSubsequence(sub, Tail(req))

IsSplit == result.op = "_split_cols"

\* C13: the two lists of _split_cols hold exactly the requested names the table has,
\* each in one list only (numeric columns in nums, the others in cats), and each list
\* keeps the order of the request.
C13_SplitKeepsPresentNamesInOrder ==
    IsSplit
    => LET present == {i \in DOMAIN result.columns : HasColumn(df, result.columns[i])}
       IN  /\ Range(result.cats) \cup Range(result.nums)
                = {result.columns[i] : i \in present}
           /\ Len(result.cats) + Len(result.nums) = Cardinality(present)
           /\ \A c \in Range(result.nums) : is_numeric_dtype(df.dtype[c])
           /\ \A c \in Range(result.cats) : ~is_numeric_dtype(df.dtype[c])
           /\ IsSubsequence(result.cats, result.columns)
           /\ IsSubsequence(result.nums, result.columns)

\* The request Z, A, Missing, B on a table where A is numeric and B, Z are not.
C13_Witness ==
    /\ IsSplit /\ result.columns = <<"Z", "A", "Missing", "B">>
    /\ result.cats = <<"Z", "B">> /\ result.nums = <<"A">>

IsBest == result.op = "_best_numeric"

\* The positions of the table's numeric columns.
NumericPositions == {i \in DOMAIN df.columns : is_numeric_dtype(df.dtype[df.columns[i]])}

NameHasWord(c, words) == \E w \in words : Contains(Lower(Chars(c)), Chars(w))

\* The answer is none without numeric columns, else the first numeric column whose
\* name holds one of the words, else a numeric column of the largest absolute sum.
BestIsChosenBy(words) ==
    LET named == {i \in NumericPositions : NameHasWord(df.columns[i], words)}
    IN  IF NumericPositions = {} THEN result.best = NoColumn
        ELSE IF named # {}
        THEN result.best = df.columns[CHOOSE i \in named : \A j \in named : i <= j]
        ELSE /\ \E i \in NumericPositions : result.best = df.columns[i]
             /\ \A j \in NumericPositions :
                    AbsSum(df, result.best) >= AbsSum(df, df.columns[j])

Attempts == 4

\* The prompt of the agent, known by its first sentence.
SYSTEM_PROMPT == Chars("You are Abacus, an AI financial advisor.")

\* _with_system_prompt: the system prompt is put first unless the first message
\* holds it already.
_with_system_prompt(messages) ==
    IF messages = <<>> \/ ~Contains(messages[1].content, SYSTEM_PROMPT)
    THEN <<Message("system", SYSTEM_PROMPT)>> \o messages
    ELSE messages

\* The wait after a failed attempt grows as a power of two.
backoff_constant(attempt) == 1

\* time.sleep(2 ** attempt): the seconds waited after the failure of an attempt.
backoff(attempt) == 2 ^ attempt

\* What one call of client.chat.completions.create does: it returns a reply, or it
\* raises an API error, or it raises something that is not an API error.
CreateOutcomes == {"reply", "OpenAIError", "TypeError"}

Asked == Message("user", Chars("show my spending"))

CallMessages ==
    {<<>>, <<Asked>>, NewChat, Append(NewChat, Asked), <<Asked, NewChat[1]>>,
     <<Message("system", SYSTEM_PROMPT \o Chars("Hello, how can I help?")), Asked>>,
     <<Message("system", SYSTEM_PROMPT), Asked, Message("system", Chars("12"))>>,
     NewChat \o <<Asked, Message("assistant", Chars("Hello, how can I help?")), Asked>>}

CallReplies == {Chars("Hello, how can I help?"), BarDirective, Fenced(BarDirective, <<>>), <<>>}

Try(kind, content) == [kind |-> kind, content |-> content]

\* The end of call_openai: the reply returned or the exception raised, with the
\* create calls made and the seconds slept on the way.
CallEnd(outcome, error, value, tries, slept, messages) ==
    [op |-> "call_openai", outcome |-> outcome, error |-> error, value |-> value,
     tries |-> tries, slept |-> slept, messages |-> messages]

\* call_openai is entered: the messages are prepared and the loop starts at attempt 0.
CallOpenAI ==
    \E messages \in CallMessages :
        /\ result = NoResult
        /\ call.pc = "idle"
        /\ call' = [pc |-> "create", attempt |-> 0,
                    messages |-> _with_system_prompt(messages), tries |-> <<>>, slept |-> <<>>]
        /\ UNCHANGED <<df, settings, rng, openFigs, result, drawn, otherDraws, tpc, tlen, tsel,
                       attached, chat, files, requests>>

\* One attempt: the create call returns, and call_openai returns its reply; or it
\* raises an API error, which is caught; or it raises another exception, which
\* leaves call_openai.
Create ==
    \E kind \in CreateOutcomes, reply \in CallReplies :
        /\ call.pc = "create"
        /\ kind # "reply" => reply = <<>>
        /\ LET tries == Append(call.tries, Try(kind, reply))
           IN  IF kind = "OpenAIError"
               THEN /\ call' = [call EXCEPT !.pc = "sleep", !.tries = tries]
                    /\ UNCHANGED result
               ELSE /\ call' = NoCall
                    /\ result' = IF kind = "reply"
                                 THEN CallEnd("return", "", reply, tries, call.slept,
                                              call.messages)
                                 ELSE CallEnd("raise", kind, <<>>, tries, call.slept,
                                              call.messages)
        /\ UNCHANGED <<df, settings, rng, openFigs, drawn, otherDraws, tpc, tlen, tsel,
                       attached, chat, files, requests>>

\* The except clause: the wait, then the next attempt, or RuntimeError when the
\* loop is over.
Sleep ==
    /\ call.pc = "sleep"
    /\ LET slept == Append(call.slept, backoff(call.attempt))
       IN  IF call.attempt + 1 < Attempts
           THEN /\ call' = [call EXCEPT !.pc = "create", !.attempt = @ + 1, !.slept = slept]
                /\ UNCHANGED result
           ELSE /\ call' = NoCall
                /\ result' = CallEnd("raise", "RuntimeError", <<>>, call.tries, slept,
                                     call.messages)
    /\ UNCHANGED <<df, settings, rng, openFigs, drawn, otherDraws, tpc, tlen, tsel,
                   attached, chat, files, requests>>

OpenAIInit ==
    /\ df = NoTable
    /\ attached = FALSE
    /\ chat = NewChat
    /\ settings = ChartSettings
    /\ rng = 0
    /\ openFigs = 0
    /\ result = NoResult
    /\ drawn = NoDraw
    /\ otherDraws = 0
    /\ ThreadsIdle
    /\ ServicesIdle

OpenAINext == CallOpenAI \/ Create \/ Sleep \/ Consume

\* The create call comes back (the client bounds the time of a request) and
\* time.sleep returns: a call in progress is not stopped for ever.
SpecOpenAI ==
    /\ OpenAIInit
    /\ [][OpenAINext]_vars
    /\ WF_vars(Create)
    /\ WF_vars(Sleep)

IsCall == result.op = "call_openai"

ApiErrors(tries) == \A i \in 1..Len(tries) : tries[i].kind = "OpenAIError"

\* The waits so far are 1, 2, 4, ... seconds, one after each API error.
Waits(slept, n) ==
    /\ Len(slept) = n
    /\ \A i \in 1..n : slept[i] = Pow(2, i - 1)

\* The retry policy, on the call in progress and on the call that ended.
RetryPolicy ==
    /\ Len(call.tries) <= Attempts
    /\ call.pc = "create" =>
           /\ Len(call.tries) = call.attempt /\ ApiErrors(call.tries)
           /\ Waits(call.slept, call.attempt)
    /\ call.pc = "sleep" =>
           /\ Len(call.tries) = call.attempt + 1 /\ ApiErrors(call.tries)
           /\ Waits(call.slept, call.attempt)
    /\ IsCall =>
           LET n == Len(result.tries)
               last == result.tries[n]
           IN  /\ n \in 1..Attempts
               /\ ApiErrors(SubSeq(result.tries, 1, n - 1))
               /\ last.kind = "reply" =>
                      /\ result.outcome = "return" /\ result.value = last.content
                      /\ Waits(result.slept, n - 1)
               /\ last.kind = "TypeError" =>
                      /\ result.outcome = "raise" /\ result.error = "TypeError"
                      /\ Waits(result.slept, n - 1)
               /\ last.kind = "OpenAIError" =>
                      /\ n = Attempts
                      /\ result.outcome = "raise" /\ result.error = "RuntimeError"
                      /\ Waits(result.slept, Attempts)

\* C29: call_openai makes at most 4 attempts; it returns the reply of the first
\* attempt that succeeds and makes no further attempt; after an API error on attempt
\* k (0..3) it waits 2^k seconds; after 4 consecutive API errors it raises; an
\* exception that is not an API error is propagated at once; and every call ends.
C29_BoundedRetries ==
    /\ []RetryPolicy
    /\ (call.pc # "idle") ~> (call.pc = "idle" /\ IsCall)

\* Four API errors in a row: the call ended with RuntimeError after 1, 2, 4 and 8 s.
C29_Witness ==
    /\ IsCall /\ result.error = "RuntimeError"
    /\ Len(result.tries) = Attempts /\ result.slept = <<1, 2, 4, 8>>

\* ------------------------------------------------- the stock analysis

\* str.upper() on one character.
UpperChar(c) ==
    CASE c = "a" -> "A" [] c = "b" -> "B" [] c = "m" -> "M" [] c = "s" -> "S"
      [] c = "t" -> "T" [] OTHER -> c

Upper(cs) == [i \in 1..Len(cs) |-> UpperChar(cs[i])]

\* request.symbol as the clients send it.
RawSymbols == {<<"a", "b">>, <<" ", "M", "s", "\n">>, <<"T">>, <<" ">>, <<>>}

\* A file of the output directory holding text; the text is known by the symbol
\* of its heading, and is empty between open(.., "w") and the end of the with block.
FileOf(symbol) == [exists |-> TRUE, symbol |-> symbol]

\* A file left by an earlier analysis.
OldFile == FileOf(<<"O", "L", "D">>)

\* The stock analysis touches nothing of the chat agent.
RestUnchanged ==
    UNCHANGED <<df, settings, rng, openFigs, result, drawn, otherDraws, tpc, tlen, tsel,
                attached, chat, call>>

\* POST /stock/analyze-sync is received: the symbol is normalised, an empty one is
\* refused with status 400, and the analysis is handed to the executor.
Receive(r) ==
    \E raw \in RawSymbols :
        /\ requests[r].pc = "idle"
        /\ LET symbol == strip(Upper(raw))
           IN  requests' = [requests EXCEPT ![r] =
                   IF symbol = <<>>
                   THEN [@ EXCEPT !.pc = "failed", !.status = 400]
                   ELSE [@ EXCEPT !.pc = "submitted", !.symbol = symbol]]
        /\ UNCHANGED files
    /\ RestUnchanged
        /\ RestUnchanged

\* run_stock_analysis_direct in a worker thread, up to the saving of the results:
\* the data is fetched and the three model calls are made. An exception makes it
\* return status "error", which the handler turns into status 500.
Analyse(r) ==
    \E ok \in BOOLEAN :
        /\ requests[r].pc = "submitted"
        /\ requests' = [requests EXCEPT ![r] =
               IF ok THEN [@ EXCEPT !.pc = "open_analysis"]
               ELSE [@ EXCEPT !.pc = "failed", !.status = 500]]
        /\ UNCHANGED files
    /\ RestUnchanged
        /\ RestUnchanged

\* open(output_dir / "Analysis.md", "w"): the file is created or emptied.
OpenAnalysis(r) ==
    /\ requests[r].pc = "open_analysis"
    /\ files' = [files EXCEPT !.analysis = FileOf(<<>>)]
    /\ requests' = [requests EXCEPT ![r].pc = "write_analysis"]
    /\ RestUnchanged

\* f.write(analysis_content) and the end of the with block.
WriteAnalysis(r) ==
    /\ requests[r].pc = "write_analysis"
    /\ files' = [files EXCEPT !.analysis = FileOf(requests[r].symbol)]
    /\ requests' = [requests EXCEPT ![r].pc = "open_recommendation"]
    /\ RestUnchanged

\* open(output_dir / "Recommendation.md", "w").
OpenRecommendation(r) ==
    /\ requests[r].pc = "open_recommendation"
    /\ files' = [files EXCEPT !.recommendation = FileOf(<<>>)]
    /\ requests' = [requests EXCEPT ![r].pc = "write_recommendation"]
    /\ RestUnchanged

\* f.write(recommendation_content), the end of the with block, and the return of
\* status "success" to the handler.
WriteRecommendation(r) ==
    /\ requests[r].pc = "write_recommendation"
    /\ files' = [files EXCEPT !.recommendation = FileOf(requests[r].symbol)]
    /\ requests' = [requests EXCEPT ![r].pc = "written"]
    /\ RestUnchanged

\* get_analysis_results_direct, first half: Analysis.md is read if it exists.
ReadAnalysis(r) ==
    /\ requests[r].pc = "written"
    /\ requests' = [requests EXCEPT ![r] =
           [@ EXCEPT !.pc = "read_recommendation",
                     !.analysis = IF files.analysis.exists THEN files.analysis.symbol
                                  ELSE <<>>]]
    /\ UNCHANGED files
    /\ RestUnchanged

\* get_analysis_results_direct, second half, and the response of the handler.
ReadRecommendation(r) ==
    /\ requests[r].pc = "read_recommendation"
    /\ requests' = [requests EXCEPT ![r] =
           [@ EXCEPT !.pc = "responded", !.status = 200,
                     !.recommendation = IF files.recommendation.exists
                                        THEN files.recommendation.symbol ELSE <<>>]]
    /\ UNCHANGED files
    /\ RestUnchanged

StockInit ==
    /\ df = NoTable
    /\ attached = FALSE
    /\ chat = NewChat
    /\ settings = ChartSettings
    /\ rng = 0
    /\ openFigs = 0
    /\ result = NoResult
    /\ drawn = NoDraw
    /\ otherDraws = 0
    /\ ThreadsIdle
    /\ call = NoCall
    /\ files \in {[analysis |-> NoFile, recommendation |-> NoFile],
                  [analysis |-> OldFile, recommendation |-> OldFile]}
    /\ requests = [r \in StockRequests |-> NoRequest]

\* The handlers run on the event loop and the analyses in threads of the default
\* executor: the steps of the two requests interleave freely.
StockNext ==
    \E r \in StockRequests :
        \/ Receive(r)
        \/ Analyse(r)
        \/ OpenAnalysis(r)
        \/ WriteAnalysis(r)
        \/ OpenRecommendation(r)
        \/ WriteRecommendation(r)
        \/ ReadAnalysis(r)
        \/ ReadRecommendation(r)

SpecStock == StockInit /\ [][StockNext]_vars

\* C30: when two synchronous stock-analysis requests for different symbols run
\* concurrently, each response holds the analysis and the recommendation generated
\* for its own symbol, under every interleaving of the two runs.
C30_EachRequestGetsItsOwnReport ==
    \A r \in StockRequests :
        (/\ requests[r].pc = "responded"
         /\ \A o \in StockRequests \ {r} : requests[o].symbol # requests[r].symbol)
        => /\ requests[r].analysis = requests[r].symbol
           /\ requests[r].recommendation = requests[r].symbol

====
